---- MODULE Spec2Model ----
(***************************************************************************)
(* Verification model of screenshot-manager.                               *)
(*                                                                         *)
(* The repository is a collection of loosely coupled components.  Each     *)
(* component is modelled by its own group of variables, its own actions    *)
(* and its own specification (Spec, SpecPD, SpecEH, ...); a component's    *)
(* actions leave the variables of the other components unchanged.          *)
(***************************************************************************)
EXTENDS Integers, Sequences, FiniteSets, TLC

(***************************************************************************)
(* State                                                                   *)
(***************************************************************************)
\* PortMonitor  (src/src/monitors/webapp_monitor.py)
VARIABLES
    active_apps,    \* PortMonitor.active_apps: port -> AppInfo
    new_apps,       \* value returned by the last detect_new_apps call
    current_ports,  \* check_ports() result seen by the last detect_new_apps
    polls,          \* number of detect_new_apps calls so far (capped)
    streak_reports  \* history: port -> reports since it was last seen inactive

pmVars == <<active_apps, new_apps, current_ports, polls, streak_reports>>

\* ProjectDetector  (src/src/detectors/project_detector.py)
VARIABLES
    project,        \* the directory handed to detect_project
    project_info,   \* value returned by detect_project
    pd_pc           \* "call" before detect_project ran, "done" after

pdVars == <<project, project_info, pd_pc>>

\* ErrorHandler and handle_errors  (src/src/utils/error_handler.py)
VARIABLES
    decoration,      \* the arguments of handle_errors(...) and the function decorated
    wrapper_status,  \* "decorated", or "type_error" when handle_errors(...) itself raised
    wrapper_handler, \* wrapper._error_handler (async_wrapper._error_handler if async)
    global_handler,  \* _global_error_handler
    call_count,      \* invocations of the decorated function's body so far
    calls,           \* calls of the wrapper so far
    last_call        \* what the last call of the wrapper did

ehVars == <<decoration, wrapper_status, wrapper_handler, global_handler,
            call_count, calls, last_call>>

\* an ErrorHandler used directly
VARIABLES
    error_handler,   \* ErrorHandler()
    handled          \* history: errors handed to handle_error, and those a strategy resolved

esVars == <<error_handler, handled>>

\* PerformanceCache  (src/src/utils/performance_monitor.py)
VARIABLES
    perf_cache,      \* the dictionaries _cache, _timestamps, _access_counts and their key order
    now,             \* datetime.now(), in seconds
    cache_op,        \* the last cache operation and what it returned
    stored           \* history: key -> the value and time of the most recent set of the key

pcVars == <<perf_cache, now, cache_op, stored>>

\* PerformanceMonitor.optimize_concurrent_screenshots
VARIABLES
    screenshot_tasks,  \* the submitted tasks: what each does when awaited
    max_concurrent,    \* the limit after the resource adjustment
    semaphore,         \* the semaphore's counter
    task_state,        \* per task: waiting for the semaphore, running, done
    finished,          \* the tasks in the order they completed
    gather_results,           \* the list returned
    oc_pc,             \* idle, gathering, returned
    oc_call            \* the call's max_concurrent and psutil's readings during it

ocVars == <<screenshot_tasks, max_concurrent, semaphore, task_state, finished,
            gather_results, oc_pc, oc_call>>

\* PerformanceMonitor: monitoring and get_performance_summary
VARIABLES
    monitoring_active,   \* PerformanceMonitor.monitoring_active
    task_queue_running,  \* TaskQueue.running
    resource_history,    \* the readings the monitoring loop appended
    metrics_history,     \* number of metrics recorded
    execution_times,     \* function name -> number of recorded times
    summary              \* what the last get_performance_summary returned

psVars == <<monitoring_active, task_queue_running, resource_history,
            metrics_history, execution_times, summary>>

\* HealthChecker  (src/src/utils/reliability_manager.py)
VARIABLES
    health,        \* component -> HealthChecker.health (status, failure_count)
    last_check,    \* the component last checked and what its check did
    reached        \* history: component -> the statuses it has had

hcVars == <<health, last_check, reached>>

\* ReliabilityManager  (src/src/utils/reliability_manager.py)
VARIABLES
    rm_running,        \* ReliabilityManager.running
    health_checkers,   \* the registered components, in registration order
    checker_running,   \* component -> HealthChecker.running
    monitoring_task,   \* _monitoring_task: none, running, cancelled
    save_task,         \* StateManager._save_task: none, running, cancelled
    component_states,  \* components recorded in StateManager.current_state
    shutdown_handlers, \* number of graceful_shutdown_handlers
    shutdown,          \* where a graceful_shutdown in progress stands
    unsaved_starts,    \* history: starts not yet followed by stop's save_state
    rm_op              \* the last call of the manager's interface that returned

rmVars == <<rm_running, health_checkers, checker_running, monitoring_task, save_task,
            component_states, shutdown_handlers, shutdown, unsaved_starts, rm_op>>

\* CodeChangeMonitor  (src/src/monitors/code_change_monitor.py)
VARIABLES
    WATCHDOG_AVAILABLE, \* whether the watchdog library could be imported
    cm_running,         \* CodeChangeMonitor.running
    observers,          \* the project keys of CodeChangeMonitor.observers
    watch_configs,      \* project key -> project_path of its ProjectWatchConfig
    pending_changes,    \* project key -> number of pending ChangeEvents
    debounce_timers,    \* project key -> state of the Timer kept for it
    started_timers,     \* history: project key -> Timers started, neither cancelled nor run
    cm_op               \* the last call of the monitor that returned, and its result

cmVars == <<WATCHDOG_AVAILABLE, cm_running, observers, watch_configs, pending_changes,
            debounce_timers, started_timers, cm_op>>

\* ScreenshotManagerMCP and its MCPServer  (src/src/integrations/mcp_server.py)
VARIABLES
    tools,          \* MCPServer.tools: tool name -> handler
    code_monitor,   \* whether ScreenshotManagerMCP.code_monitor is set
    response,       \* what the last handle_request gave its caller
    invoked,        \* history: the handlers the last handle_request ran
    failure,        \* history: the step of the last request that failed
    last_request,   \* history: the tool last requested and its workflow's result
    watched_ok,     \* history: keys started successfully and not stopped since
    start_called    \* history: start_code_monitoring was requested

mcpVars == <<tools, code_monitor, response, invoked, failure, last_request,
             watched_ok, start_called>>

\* WebAppMonitor: configuration and run loop  (src/src/monitors/webapp_monitor.py)
VARIABLES
    config_file,      \* the file at config_path: its kind and, if it parses, its content
    wm_config,        \* WebAppMonitor.config
    monitored_ports,  \* WebAppMonitor.monitored_ports
    port_monitor,     \* the monitor's PortMonitor: ports and active_apps
    detected_apps,    \* the ports of WebAppMonitor.detected_apps
    polled,           \* history: the ports probed by the run loop
    wm_pc             \* new, constructed, running

wcVars == <<config_file, wm_config, monitored_ports, port_monitor, detected_apps,
            polled, wm_pc>>

\* mcp_screenshot_server: start-up and tool calls  (src/mcp_screenshot_server.py)
VARIABLES
    mcp_installed,   \* whether the mcp package can be imported
    MCP_AVAILABLE,   \* the module's flag, set by the import block
    module_names,    \* the module-level names bound so far
    stderr_lines,    \* what the module has written to stderr
    ss_pc,           \* the module-level statement to execute next
    ss_mode,         \* what main has entered: none, standalone, stdio
    last_tool_call   \* history: the last call of handle_call_tool and its answer

ssVars == <<mcp_installed, MCP_AVAILABLE, module_names, stderr_lines, ss_pc, ss_mode,
            last_tool_call>>

\* get_global_error_handler called from several threads  (src/src/utils/error_handler.py)
VARIABLES
    global_error_handler,  \* _global_error_handler: 0 is None, n the n-th ErrorHandler
    instances,             \* how many ErrorHandler objects have been constructed
    gh_pc,                 \* per thread: the statement of the function to execute next
    gh_new,                \* per thread: the object its ErrorHandler() call produced
    gh_calls,              \* per thread: how many calls have returned
    gh_returned            \* history: the objects the calls have returned

ghVars == <<global_error_handler, instances, gh_pc, gh_new, gh_calls, gh_returned>>

\* debouncing of change events by the event thread and the timer threads
\* (src/src/monitors/code_change_monitor.py)
VARIABLES
    db_now,          \* the clock, in seconds
    list_objects,    \* the list objects created so far, each with its events
    db_pending,      \* pending_changes[project_key]: which list object it refers to
    timers,          \* the threading.Timer objects created so far
    db_timer,        \* debounce_timers[project_key]: 0 when there is none
    ev_pc,           \* the event thread's position in handle_change_event
    ev_ref,          \* the list object the event thread has loaded
    arrivals,        \* history: the time each accepted event arrived
    batches          \* history: the batches processed, with the time of processing

dbVars == <<db_now, list_objects, db_pending, timers, db_timer, ev_pc, ev_ref, arrivals,
            batches>>

\* WebAppMonitor.on_app_detected: readiness, capture, detection log
\* (src/src/monitors/webapp_monitor.py)
VARIABLES
    ad_pc,           \* the statement of on_app_detected to execute next
    ad_elapsed,      \* time.time() - start_time inside wait_for_app_ready
    ad_status,       \* history: the last answer requests.get gave
    ad_trace,        \* history: what the current detection has done so far
    ad_finished,     \* history: the traces of the detections handled
    ad_count,        \* how many detections have been handled
    last_capture     \* history: the last call of capture_screenshots

adVars == <<ad_pc, ad_elapsed, ad_status, ad_trace, ad_finished, ad_count, last_capture>>

\* AutoRecovery for one component  (src/src/utils/reliability_manager.py)
VARIABLES
    ar_now,              \* datetime.now(), in seconds
    ar_health,           \* the component's health (status, failure_count)
    recovery_attempts,   \* health.recovery_attempts
    last_recovery_time,  \* _last_recovery_times.get(component_name)
    recovery_strategies, \* whether a strategy is registered for the component
    ar_pc,               \* idle, or recovering while the strategy is awaited
    ar_op,               \* what the last round of the monitoring loop did
    recovery_history     \* history: the strategy's invocations, their number and the
                         \* conditions of the latest

arVars == <<ar_now, ar_health, recovery_attempts, last_recovery_time, recovery_strategies,
            ar_pc, ar_op, recovery_history>>

\* ReliabilityManager.graceful_shutdown, called by stop() and by the signal handler's task
VARIABLES
    sd_running,                  \* self.running
    graceful_shutdown_handlers,  \* the number of handlers added, handler k being the k-th
    sd_checkers,                 \* the number of registered health checkers
    sd_checkers_running,         \* the health checkers whose loop runs
    sd_monitoring,               \* _monitoring_task: none, running, cancelled
    sd_cycle,                    \* the number of starts so far
    sd_pc,                       \* per caller: where its graceful_shutdown stands
    sd_i,                        \* per caller: handlers awaited, then checkers stopped
    sd_entry,                    \* per caller: the handlers and checkers present when it entered
    sd_trace,                    \* history, per caller: what its graceful_shutdown has done
    handler_runs                 \* history: per handler, its runs since the last start

sdVars == <<sd_running, graceful_shutdown_handlers, sd_checkers, sd_checkers_running,
            sd_monitoring, sd_cycle, sd_pc, sd_i, sd_entry, sd_trace, handler_runs>>

\* CodeChangeMonitor.remove_project_watch against the debounce-timer thread, one project
VARIABLES
    rw_observers,       \* whether project_key is in self.observers
    rw_watch_configs,   \* watch_configs.get(project_key): absent, auto, manual
    rw_pending,         \* pending_changes: whether the key is present, and the events held
    rw_timers,          \* whether project_key is in self.debounce_timers
    rw_timer,           \* the Timer object: none, started, cancelled, fired
    rw_pc,              \* where remove_project_watch stands
    tt_pc,              \* where _process_pending_changes stands in the timer thread
    tt_changes,         \* its local: changes
    tt_config,          \* its local: config
    rw_removed,            \* history: remove_project_watch has returned and p was not added since
    after_removal,      \* history: what was done for p while rw_removed
    rw_events,          \* the number of change events delivered
    rw_adds             \* the number of add_project_watch calls

rwVars == <<rw_observers, rw_watch_configs, rw_pending, rw_timers, rw_timer, rw_pc, tt_pc,
            tt_changes, tt_config, rw_removed, after_removal, rw_events, rw_adds>>

\* TaskQueue  (src/src/utils/performance_monitor.py)
VARIABLES
    tq_running,     \* self._running
    tq_queue,       \* self.queue: task numbers, 0 for the None that stop puts
    tq_semaphore,   \* self.semaphore's counter
    tq_pc,          \* the _process_queue task: none, created, get, exited
    tq_future,      \* per task: unsubmitted, pending, result, exception
    tq_exec,        \* per task: its _execute_task: none, waiting, running, done
    tq_starts,      \* the number of start calls
    tq_stops        \* the number of stop calls

tqVars == <<tq_running, tq_queue, tq_semaphore, tq_pc, tq_future, tq_exec, tq_starts,
            tq_stops>>

\* ProjectDetector.scan_directory  (src/src/detectors/project_detector.py)
VARIABLES
    sc_pc,          \* idle, scanning, returned
    sc_max_depth,   \* the max_depth argument
    sc_stack,       \* the calls of _scan_recursive in progress, innermost last
    sc_projects,    \* projects: the paths of the detected projects, in order
    sc_entries,     \* history: the entries of the file tree seen so far
    sc_inspected    \* history: the directories detect_project was applied to

scVars == <<sc_pc, sc_max_depth, sc_stack, sc_projects, sc_entries, sc_inspected>>

vars == <<pmVars, pdVars, ehVars, esVars, pcVars, ocVars, psVars, hcVars, rmVars, cmVars, mcpVars, wcVars, ssVars, ghVars, dbVars, adVars, arVars, sdVars, rwVars, tqVars, scVars>>

\* what the actions of one component leave unchanged
PMFrame == UNCHANGED <<pdVars, ehVars, esVars, pcVars, ocVars, psVars, hcVars, rmVars, cmVars, mcpVars, wcVars, ssVars, ghVars, dbVars, adVars, arVars, sdVars, rwVars, tqVars, scVars>>

PDFrame == UNCHANGED <<pmVars, ehVars, esVars, pcVars, ocVars, psVars, hcVars, rmVars, cmVars, mcpVars, wcVars, ssVars, ghVars, dbVars, adVars, arVars, sdVars, rwVars, tqVars, scVars>>

EHFrame == UNCHANGED <<pmVars, pdVars, esVars, pcVars, ocVars, psVars, hcVars, rmVars, cmVars, mcpVars, wcVars, ssVars, ghVars, dbVars, adVars, arVars, sdVars, rwVars, tqVars, scVars>>

ESFrame == UNCHANGED <<pmVars, pdVars, ehVars, pcVars, ocVars, psVars, hcVars, rmVars, cmVars, mcpVars, wcVars, ssVars, ghVars, dbVars, adVars, arVars, sdVars, rwVars, tqVars, scVars>>

PCFrame == UNCHANGED <<pmVars, pdVars, ehVars, esVars, ocVars, psVars, hcVars, rmVars, cmVars, mcpVars, wcVars, ssVars, ghVars, dbVars, adVars, arVars, sdVars, rwVars, tqVars, scVars>>

OCFrame == UNCHANGED <<pmVars, pdVars, ehVars, esVars, pcVars, psVars, hcVars, rmVars, cmVars, mcpVars, wcVars, ssVars, ghVars, dbVars, adVars, arVars, sdVars, rwVars, tqVars, scVars>>

\* the monitor's cache is swept by its loop and by get_stats
PSFrame == UNCHANGED <<pmVars, pdVars, ehVars, esVars, ocVars, now, stored, hcVars, rmVars, cmVars, mcpVars, wcVars, ssVars, ghVars, dbVars, adVars, arVars, sdVars, rwVars, tqVars, scVars>>

HCFrame == UNCHANGED <<pmVars, pdVars, ehVars, esVars, pcVars, ocVars, psVars, rmVars, cmVars, mcpVars, wcVars, ssVars, ghVars, dbVars, adVars, arVars, sdVars, rwVars, tqVars, scVars>>

\* the manager's checkers write the components' health
RMFrame == UNCHANGED <<pmVars, pdVars, ehVars, esVars, pcVars, ocVars, psVars,
                       last_check, reached, cmVars, mcpVars, wcVars, ssVars, ghVars, dbVars, adVars, arVars, sdVars, rwVars, tqVars, scVars>>

CMFrame == UNCHANGED <<pmVars, pdVars, ehVars, esVars, pcVars, ocVars, psVars, hcVars,
                       rmVars, mcpVars, wcVars, ssVars, ghVars, dbVars, adVars, arVars, sdVars, rwVars, tqVars, scVars>>

\* the monitoring tools work on the code change monitor
MCPFrame == UNCHANGED <<pmVars, pdVars, ehVars, esVars, pcVars, ocVars, psVars, hcVars,
                        rmVars, WATCHDOG_AVAILABLE, cm_op, wcVars, ssVars, ghVars, dbVars, adVars, arVars, sdVars, rwVars, tqVars, scVars>>

WCFrame == UNCHANGED <<pmVars, pdVars, ehVars, esVars, pcVars, ocVars, psVars, hcVars,
                       rmVars, cmVars, mcpVars, ssVars, ghVars, dbVars, adVars, arVars, sdVars, rwVars, tqVars, scVars>>

SSFrame == UNCHANGED <<pmVars, pdVars, ehVars, esVars, pcVars, ocVars, psVars, hcVars,
                       rmVars, cmVars, mcpVars, wcVars, ghVars, dbVars, adVars, arVars, sdVars, rwVars, tqVars, scVars>>

GHFrame == UNCHANGED <<pmVars, pdVars, ehVars, esVars, pcVars, ocVars, psVars, hcVars,
                       rmVars, cmVars, mcpVars, wcVars, ssVars, dbVars, adVars, arVars, sdVars, rwVars, tqVars, scVars>>

DBFrame == UNCHANGED <<pmVars, pdVars, ehVars, esVars, pcVars, ocVars, psVars, hcVars,
                       rmVars, cmVars, mcpVars, wcVars, ssVars, ghVars, adVars, arVars, sdVars, rwVars, tqVars, scVars>>

ADFrame == UNCHANGED <<pmVars, pdVars, ehVars, esVars, pcVars, ocVars, psVars, hcVars,
                       rmVars, cmVars, mcpVars, wcVars, ssVars, ghVars, dbVars, arVars, sdVars, rwVars, tqVars, scVars>>

ARFrame == UNCHANGED <<pmVars, pdVars, ehVars, esVars, pcVars, ocVars, psVars, hcVars,
                       rmVars, cmVars, mcpVars, wcVars, ssVars, ghVars, dbVars, adVars, sdVars, rwVars, tqVars, scVars>>

SDFrame == UNCHANGED <<pmVars, pdVars, ehVars, esVars, pcVars, ocVars, psVars, hcVars,
                       rmVars, cmVars, mcpVars, wcVars, ssVars, ghVars, dbVars, adVars,
                       arVars, rwVars, tqVars, scVars>>

RWFrame == UNCHANGED <<pmVars, pdVars, ehVars, esVars, pcVars, ocVars, psVars, hcVars,
                       rmVars, cmVars, mcpVars, wcVars, ssVars, ghVars, dbVars, adVars,
                       arVars, sdVars, tqVars, scVars>>

TQFrame == UNCHANGED <<pmVars, pdVars, ehVars, esVars, pcVars, ocVars, psVars, hcVars,
                       rmVars, cmVars, mcpVars, wcVars, ssVars, ghVars, dbVars, adVars,
                       arVars, sdVars, rwVars, scVars>>

SCFrame == UNCHANGED <<pmVars, pdVars, ehVars, esVars, pcVars, ocVars, psVars, hcVars,
                       rmVars, cmVars, mcpVars, wcVars, ssVars, ghVars, dbVars, adVars,
                       arVars, sdVars, rwVars, tqVars>>

(***************************************************************************)
(* Generic helpers                                                         *)
(***************************************************************************)
Range(s) == {s[i] : i \in 1..Len(s)}

Max2(a, b) == IF a >= b THEN a ELSE b

Min2(a, b) == IF a <= b THEN a ELSE b

(***************************************************************************)
(* PortMonitor  (src/src/monitors/webapp_monitor.py)                       *)
(***************************************************************************)
\* PortMonitor.DEFAULT_PORTS, in source order
DEFAULT_PORTS == <<3000, 3001, 5000, 5173, 5174, 8000, 8080, 8888, 4200, 4000, 9000>>

\* number of ports handed to PortMonitor(ports=...)
NumPorts == 3

\* number of polls after which the poll counter stops counting
MaxPolls == 2

ports == SubSeq(DEFAULT_PORTS, 1, NumPorts)

PortSet == Range(ports)

(* What the operating system and the app answer for one port during one    *)
(* poll: the ss probe, and the HTTP GET issued when the port listens.      *)
PortEnv == {"closed", "probe_error", "listen_refused",
            "listen_200_react", "listen_200_plain", "listen_500"}

\* check_ports: is_active for one port
IsActiveProbe(e) ==
    CASE e = "closed"           -> FALSE
      [] e = "probe_error"      -> FALSE   \* except Exception: active_ports[port] = False
      [] e = "listen_refused"   -> TRUE    \* requests raised: the port stays active
      [] e = "listen_200_react" -> TRUE    \* status_code < 500
      [] e = "listen_200_plain" -> TRUE
      [] e = "listen_500"       -> FALSE   \* status_code >= 500

check_ports(env) == [p \in PortSet |-> IsActiveProbe(env[p])]

\* the port -> framework table at the end of detect_framework
port_framework(p) ==
    CASE p = 3000 -> "React/Express"
      [] p = 5173 -> "Vite"
      [] p = 4200 -> "Angular"
      [] p = 5000 -> "Flask"
      [] p = 8000 -> "Django"
      [] OTHER    -> "unknown"

detect_framework(p, e) ==
    IF e = "listen_200_react" THEN "React" ELSE port_framework(p)

AppInfo(p, e) == [port |-> p, framework |-> detect_framework(p, e)]

(* detect_new_apps without the branch that deletes a stopped app           *)
RECURSIVE DetectLoopNoRemove(_, _, _, _, _)
DetectLoopNoRemove(i, env, current, apps, new) ==
    IF i > Len(ports) THEN <<apps, new>>
    ELSE LET p == ports[i] IN
         IF current[p] /\ p \notin DOMAIN apps
           THEN DetectLoopNoRemove(i + 1, env, current,
                           [q \in (DOMAIN apps) \cup {p} |->
                               IF q = p THEN AppInfo(p, env[p]) ELSE apps[q]],
                           Append(new, p))
         ELSE DetectLoopNoRemove(i + 1, env, current, apps, new)

(* The loop body of detect_new_apps for the ports i..Len(ports), given the *)
(* dictionary and the list built so far.  Returns <<active_apps, new_apps>>*)
RECURSIVE DetectLoop(_, _, _, _, _)
DetectLoop(i, env, current, apps, new) ==
    IF i > Len(ports) THEN <<apps, new>>
    ELSE LET p == ports[i] IN
         IF current[p] /\ p \notin DOMAIN apps
           THEN DetectLoop(i + 1, env, current,
                           [q \in (DOMAIN apps) \cup {p} |->
                               IF q = p THEN AppInfo(p, env[p]) ELSE apps[q]],
                           Append(new, p))
         ELSE IF ~current[p] /\ p \in DOMAIN apps
           THEN DetectLoop(i + 1, env, current,
                           [q \in (DOMAIN apps) \ {p} |-> apps[q]], new)
         ELSE DetectLoop(i + 1, env, current, apps, new)

PMInit ==
    /\ active_apps = << >>
    /\ new_apps = << >>
    /\ current_ports = [p \in PortSet |-> FALSE]
    /\ polls = 0
    /\ streak_reports = [p \in PortSet |-> 0]

detect_new_apps(env) ==
    LET current == check_ports(env)
        r == DetectLoop(1, env, current, active_apps, << >>)
    IN /\ active_apps' = r[1]
       /\ new_apps' = r[2]
       /\ current_ports' = current
       /\ polls' = Min2(polls + 1, MaxPolls)
       /\ streak_reports' =
            [p \in PortSet |->
                IF ~current[p] THEN 0
                ELSE IF p \in Range(r[2])
                       THEN Min2(streak_reports[p] + 1, 2)
                       ELSE streak_reports[p]]

Poll ==
    /\ \E env \in [PortSet -> PortEnv] : detect_new_apps(env)
    /\ PMFrame

(***************************************************************************)
(* ProjectDetector  (src/src/detectors/project_detector.py)                *)
(*                                                                         *)
(* Confidences are kept as exact integers: a confidence c of the source is *)
(* the integer c * ConfUnit.  Every divisor of the scoring (1..4 entries   *)
(* of a pattern list), the weights 0.4 / 0.2 and the confidence_base       *)
(* values (two decimals) divide ConfUnit, so no rounding takes place.      *)
(***************************************************************************)
\* most files, package dependencies and requirement lines a drawn project has in total
MaxItems == 3

ConfUnit == 12 * 10 * 100

\* FRAMEWORK_PATTERNS in dictionary (insertion) order
FrameworkOrder ==
    <<"React", "Vue", "Angular", "Next.js", "Django", "Flask", "Express", "Vite">>

Frameworks == Range(FrameworkOrder)

\* confidence_base is given in hundredths; a framework without the key
\* 'patterns' has has_patterns = FALSE
FRAMEWORK_PATTERNS(fw) ==
    CASE fw = "React" ->
           [files |-> <<"package.json">>,
            dependencies |-> <<"react", "react-dom">>,
            dev_dependencies |-> <<"react-scripts", "@vitejs/plugin-react">>,
            has_patterns |-> FALSE, patterns |-> << >>,
            default_port |-> 3000, confidence_base |-> 90]
      [] fw = "Vue" ->
           [files |-> <<"package.json">>,
            dependencies |-> <<"vue">>,
            dev_dependencies |-> <<"@vue/cli-service", "vite", "@vitejs/plugin-vue">>,
            has_patterns |-> FALSE, patterns |-> << >>,
            default_port |-> 3000, confidence_base |-> 90]
      [] fw = "Angular" ->
           [files |-> <<"package.json", "angular.json">>,
            dependencies |-> <<"@angular/core", "@angular/common">>,
            dev_dependencies |-> <<"@angular/cli">>,
            has_patterns |-> FALSE, patterns |-> << >>,
            default_port |-> 4200, confidence_base |-> 95]
      [] fw = "Next.js" ->
           [files |-> <<"package.json">>,
            dependencies |-> <<"next", "react">>,
            dev_dependencies |-> << >>,
            has_patterns |-> FALSE, patterns |-> << >>,
            default_port |-> 3000, confidence_base |-> 90]
      [] fw = "Django" ->
           [files |-> <<"manage.py", "requirements.txt">>,
            dependencies |-> <<"Django">>,
            dev_dependencies |-> << >>,
            has_patterns |-> TRUE, patterns |-> <<"*/settings.py", "*/wsgi.py">>,
            default_port |-> 8000, confidence_base |-> 90]
      [] fw = "Flask" ->
           [files |-> <<"app.py", "requirements.txt">>,
            dependencies |-> <<"Flask">>,
            dev_dependencies |-> << >>,
            has_patterns |-> TRUE, patterns |-> <<"app.py", "main.py", "run.py">>,
            default_port |-> 5000, confidence_base |-> 80]
      [] fw = "Express" ->
           [files |-> <<"package.json">>,
            dependencies |-> <<"express">>,
            dev_dependencies |-> << >>,
            has_patterns |-> TRUE, patterns |-> <<"server.js", "app.js", "index.js">>,
            default_port |-> 3000, confidence_base |-> 80]
      [] fw = "Vite" ->
           [files |-> <<"package.json", "vite.config.js", "vite.config.ts">>,
            dependencies |-> <<"vite">>,
            dev_dependencies |-> << >>,
            has_patterns |-> FALSE, patterns |-> << >>,
            default_port |-> 5173, confidence_base |-> 70]

\* str.lower() on the dependency names of the table
Lower(d) ==
    CASE d = "Django" -> "django"
      [] d = "Flask"  -> "flask"
      [] OTHER        -> d

\* `a in b` on the lower-cased names that can stand in requirements.txt
IsSubstring(a, b) == a = b \/ (a = "react" /\ b = "react-dom")

\* every file name or glob pattern the table looks for
FileUniverse ==
    UNION {Range(FRAMEWORK_PATTERNS(fw).files) \cup Range(FRAMEWORK_PATTERNS(fw).patterns)
           : fw \in Frameworks}

\* every package name the table looks for in package.json
DepUniverse ==
    UNION {Range(FRAMEWORK_PATTERNS(fw).dependencies)
           \cup Range(FRAMEWORK_PATTERNS(fw).dev_dependencies) : fw \in Frameworks}

\* every name the table looks for in the lower-cased requirements.txt
ReqUniverse ==
    UNION {{Lower(d) : d \in Range(FRAMEWORK_PATTERNS(fw).dependencies)} : fw \in Frameworks}

\* number of entries of the sequence s that lie in the set S
CountIn(s, S) == Cardinality({i \in 1..Len(s) : s[i] \in S})

\* (project_path / name).exists(), and list(project_path.glob(name)) non-empty
Exists(prj, name) == name \in prj.files

\* _check_package_dependencies, in twelfths
check_package_dependencies(prj, pattern) ==
    LET total_checks == Len(pattern.dependencies) + Len(pattern.dev_dependencies)
        score == CountIn(pattern.dependencies, prj.deps)
                 + CountIn(pattern.dev_dependencies, prj.deps)
    IN IF ~prj.pkg_readable THEN 0      \* except Exception: return 0.0
       ELSE IF total_checks = 0 THEN 0
       ELSE (score * 12) \div total_checks

\* _check_requirements_dependencies, in twelfths
check_requirements_dependencies(prj, pattern) ==
    LET mentioned == {d \in Range(pattern.dependencies) :
                         \E t \in prj.reqs : IsSubstring(Lower(d), t)}
    IN IF ~prj.req_readable THEN 0
       ELSE IF Len(pattern.dependencies) = 0 THEN 0
       ELSE (CountIn(pattern.dependencies, mentioned) * 12) \div Len(pattern.dependencies)

\* _check_file_patterns, in twelfths
check_file_patterns(prj, patterns) ==
    IF Len(patterns) = 0 THEN 0
    ELSE (CountIn(patterns, prj.files) * 12) \div Len(patterns)

\* the sum of the weighted scores before the base confidence is applied,
\* in units of 1/120
WeightedScore(prj, pattern) ==
    LET file_part == IF Len(pattern.files) = 0 THEN 0
                     ELSE ((CountIn(pattern.files, prj.files) * 12) \div Len(pattern.files)) * 4
        package_part == IF Exists(prj, "package.json")
                        THEN check_package_dependencies(prj, pattern) * 4 ELSE 0
        requirements_part == IF Exists(prj, "requirements.txt")
                             THEN check_requirements_dependencies(prj, pattern) * 4 ELSE 0
        pattern_part == IF pattern.has_patterns
                        THEN check_file_patterns(prj, pattern.patterns) * 2 ELSE 0
    IN file_part + package_part + requirements_part + pattern_part

\* _calculate_framework_confidence: min(confidence * base_confidence, 1.0)
calculate_framework_confidence(prj, fw) ==
    LET pattern == FRAMEWORK_PATTERNS(fw)
    IN Min2(WeightedScore(prj, pattern) * pattern.confidence_base, ConfUnit)

\* the candidate threshold `confidence > 0.3`
IsCandidate(confidence) == 10 * confidence > 3 * ConfUnit

\* _detect_frameworks: the candidates, in table order, as indices of FrameworkOrder
detect_frameworks(prj) ==
    SelectSeq([i \in 1..Len(FrameworkOrder) |-> i],
              LAMBDA i : IsCandidate(calculate_framework_confidence(prj, FrameworkOrder[i])))

\* max() keeping the last entry of the greatest key instead of the first
RECURSIVE MaxByConfidenceLast(_, _, _)
MaxByConfidenceLast(prj, results, best) ==
    IF results = << >> THEN best
    ELSE LET c == calculate_framework_confidence(prj, FrameworkOrder[Head(results)])
             b == calculate_framework_confidence(prj, FrameworkOrder[best])
         IN MaxByConfidenceLast(prj, Tail(results), IF c >= b THEN Head(results) ELSE best)

\* max(framework_results, key=confidence): the first entry of the greatest key
RECURSIVE MaxByConfidence(_, _, _)
MaxByConfidence(prj, results, best) ==
    IF results = << >> THEN best
    ELSE LET c == calculate_framework_confidence(prj, FrameworkOrder[Head(results)])
             b == calculate_framework_confidence(prj, FrameworkOrder[best])
         IN MaxByConfidence(prj, Tail(results), IF c > b THEN Head(results) ELSE best)

NoProject == [found |-> FALSE, framework |-> "", confidence |-> 0, default_port |-> 0]

\* detect_project
detect_project(prj) ==
    IF prj.kind # "dir" THEN NoProject
    ELSE LET framework_results == detect_frameworks(prj) IN
         IF framework_results = << >> THEN NoProject
         ELSE LET best_match == MaxByConfidence(prj, Tail(framework_results),
                                                Head(framework_results))
                  fw == FrameworkOrder[best_match]
              IN [found |-> TRUE, framework |-> fw,
                  confidence |-> calculate_framework_confidence(prj, fw),
                  default_port |-> FRAMEWORK_PATTERNS(fw).default_port]

\* a directory with every file and every dependency the table knows
FullProject ==
    [kind |-> "dir", files |-> FileUniverse, pkg_readable |-> TRUE, deps |-> DepUniverse,
     req_readable |-> TRUE, reqs |-> ReqUniverse]

\* the subsets of U with at most k elements
RECURSIVE SubsetsUpTo(_, _)
SubsetsUpTo(U, k) ==
    IF k <= 0 \/ U = {} THEN {{}}
    ELSE LET x == CHOOSE y \in U : TRUE
         IN SubsetsUpTo(U \ {x}, k) \cup {t \cup {x} : t \in SubsetsUpTo(U \ {x}, k - 1)}

\* the package.json states of a directory with the files fs: absent, unreadable
\* (not JSON, not an object), or readable with the dependencies deps
PackageStates(fs) ==
    IF "package.json" \notin fs THEN {[pkg_readable |-> TRUE, deps |-> {}]}
    ELSE {[pkg_readable |-> FALSE, deps |-> {}]} \cup
         {[pkg_readable |-> TRUE, deps |-> ds] :
             ds \in SubsetsUpTo(DepUniverse, MaxItems - Cardinality(fs))}

\* likewise for requirements.txt, k being the number of items still allowed
RequirementStates(fs, k) ==
    IF "requirements.txt" \notin fs THEN {[req_readable |-> TRUE, reqs |-> {}]}
    ELSE {[req_readable |-> FALSE, reqs |-> {}]} \cup
         {[req_readable |-> TRUE, reqs |-> rs] : rs \in SubsetsUpTo(ReqUniverse, k)}

Directory(fs, pk, rq) ==
    [kind |-> "dir", files |-> fs, pkg_readable |-> pk.pkg_readable, deps |-> pk.deps,
     req_readable |-> rq.req_readable, reqs |-> rq.reqs]

NotADirectory(k) ==
    [kind |-> k, files |-> {}, pkg_readable |-> TRUE, deps |-> {},
     req_readable |-> TRUE, reqs |-> {}]

\* the directories detect_project is applied to
Projects ==
    {FullProject, NotADirectory("missing"), NotADirectory("file")} \cup
    UNION {UNION {{Directory(fs, pk, rq) :
                      rq \in RequirementStates(fs, MaxItems - Cardinality(fs)
                                                            - Cardinality(pk.deps))}
                  : pk \in PackageStates(fs)}
           : fs \in SubsetsUpTo(FileUniverse, MaxItems)}

PDInit ==
    /\ project \in Projects
    /\ project_info = NoProject
    /\ pd_pc = "call"

PDIdle ==
    /\ project = NotADirectory("missing")
    /\ project_info = NoProject
    /\ pd_pc = "call"

DetectProject ==
    /\ pd_pc = "call"
    /\ project_info' = detect_project(project)
    /\ pd_pc' = "done"
    /\ UNCHANGED project
    /\ PDFrame

(***************************************************************************)
(* ErrorHandler and the handle_errors decorator                            *)
(* (src/src/utils/error_handler.py)                                        *)
(*                                                                         *)
(* One decorated function is modelled, together with the handler the       *)
(* decorator keeps on its wrapper and the module-level global handler.     *)
(* The decorated function is flaky: its first `failures` invocations raise *)
(* `exc`, every later one returns "ok".                                    *)
(***************************************************************************)
\* most calls of the decorated function
MaxCalls == 2

\* most handle_global_error calls
MaxGlobalErrors == 1

\* most failing invocations of the decorated function before it succeeds
MaxFailures == 1

\* most handle_error calls on the directly used handler
MaxErrors == 2

\* ErrorCategory
ErrorCategory == {"network", "filesystem", "playwright", "mcp", "config",
                  "process", "watchdog", "screenshot", "unknown"}

\* ErrorSeverity
ErrorSeverity == {"critical", "high", "medium", "low", "info"}

\* the categories, severities and exceptions the modelled callers use
InputCategories == {"network", "filesystem", "unknown"}

InputSeverities == {"high", "low"}

Exceptions == {"ConnectionError", "RuntimeError"}

\* the keys of ErrorHandler.retry_strategies: every category but UNKNOWN
retry_strategies == ErrorCategory \ {"unknown"}

\* ErrorInfo.max_retries
max_retries == 3

\* ErrorHandler.__init__; exists = FALSE stands for the None of a handler
\* that was never created
NoHandler == [exists |-> FALSE, error_log |-> << >>, error_metrics |-> << >>]

NewHandler == [exists |-> TRUE, error_log |-> << >>, error_metrics |-> << >>]

\* what a retry strategy can answer: True, False, or an exception.  The
\* filesystem strategy returns False when the context names no file_path,
\* which is the case for the context the decorator builds.
StrategyOutcomes(category, has_file_path) ==
    IF category = "filesystem"
    THEN (IF has_file_path THEN {"true", "false"} ELSE {"false"})
    ELSE {"true", "false", "raise"}

\* _update_metrics: the two counters  "<category>_<severity>"  and  "total_<category>"
update_metrics(metrics, category, severity) ==
    LET k1 == <<category, severity>>
        k2 == <<"total", category>>
        Old(k) == IF k \in DOMAIN metrics THEN metrics[k] ELSE 0
    IN [k \in (DOMAIN metrics) \cup {k1, k2} |->
           IF k \in {k1, k2} THEN Old(k) + 1 ELSE metrics[k]]

\* _attempt_retry on a fresh ErrorInfo
attempt_retry(info, outcome) ==
    IF info.retry_count >= max_retries THEN info
    ELSE IF info.category \notin retry_strategies THEN info
    ELSE [info EXCEPT !.retry_count = @ + 1,
                      !.resolved = (outcome = "true")]   \* a raising strategy is logged

\* the ErrorInfo that handle_error leaves in the log
ErrorInfo(exception, category, severity, auto_retry, outcome) ==
    LET info == [category |-> category, severity |-> severity, message |-> exception,
                 resolved |-> FALSE, retry_count |-> 0]
    IN IF auto_retry /\ category \in retry_strategies
       THEN attempt_retry(info, outcome) ELSE info

\* handle_error replacing the log by the new entry instead of appending to it
HandleErrorKeepLast(h, exception, category, severity, auto_retry, outcome) ==
    [h EXCEPT !.error_log = <<ErrorInfo(exception, category, severity,
                                        auto_retry, outcome)>>,
              !.error_metrics = update_metrics(@, category, severity)]

\* ErrorHandler.handle_error: the handler afterwards
handle_error(h, exception, category, severity, auto_retry, outcome) ==
    [h EXCEPT !.error_log = Append(@, ErrorInfo(exception, category, severity,
                                                auto_retry, outcome)),
              !.error_metrics = update_metrics(@, category, severity)]

\* ErrorHandler.get_error_statistics (recent_errors, which reads the clock, left out)
get_error_statistics(h) ==
    [total_errors |-> Len(h.error_log),
     resolved_errors |-> Cardinality({i \in 1..Len(h.error_log) : h.error_log[i].resolved}),
     error_metrics |-> h.error_metrics,
     error_categories |->
        [c \in ErrorCategory |->
            Cardinality({i \in 1..Len(h.error_log) : h.error_log[i].category = c})],
     severity_distribution |->
        [v \in ErrorSeverity |->
            Cardinality({i \in 1..Len(h.error_log) : h.error_log[i].severity = v})]]

\* the decorations drawn: handle_errors has the keywords category, severity,
\* auto_retry and return_on_error; any other keyword, such as max_retries,
\* makes the call raise TypeError
Decorations ==
    [category : InputCategories, severity : InputSeverities,
     auto_retry : BOOLEAN, return_on_error : {"None", "False", "fallback"},
     max_retries_keyword : BOOLEAN, is_async : BOOLEAN,
     failures : 0..MaxFailures, exc : Exceptions]

NoCall == [kind |-> "none", value |-> "", func_raised |-> FALSE, invocations |-> 0]

\* the end of the except block, testing return_on_error for truth
OnErrorTruthy(d) ==
    IF d.return_on_error \notin {"None", "False"}
    THEN [kind |-> "returned", value |-> d.return_on_error,
          func_raised |-> TRUE, invocations |-> 1]
    ELSE [kind |-> "raised", value |-> d.exc, func_raised |-> TRUE, invocations |-> 1]

\* the end of the except block:  if return_on_error is not None: return it;  raise
OnError(d) ==
    IF d.return_on_error # "None"
    THEN [kind |-> "returned", value |-> d.return_on_error,
          func_raised |-> TRUE, invocations |-> 1]
    ELSE [kind |-> "raised", value |-> d.exc, func_raised |-> TRUE, invocations |-> 1]

EHStart(d) ==
    /\ decoration = d
    /\ wrapper_status = (IF d.max_retries_keyword THEN "type_error" ELSE "decorated")
    /\ wrapper_handler = NoHandler
    /\ global_handler = NoHandler
    /\ call_count = 0
    /\ calls = 0
    /\ last_call = NoCall

EHInit == \E d \in Decorations : EHStart(d)

EHIdle ==
    EHStart([category |-> "unknown", severity |-> "low", auto_retry |-> FALSE,
             return_on_error |-> "None", max_retries_keyword |-> FALSE,
             is_async |-> FALSE, failures |-> 0, exc |-> "RuntimeError"])

\* wrapper / async_wrapper: the function body returns
CallReturns ==
    /\ wrapper_status = "decorated"
    /\ calls < MaxCalls
    /\ call_count + 1 > decoration.failures
    /\ calls' = calls + 1
    /\ call_count' = call_count + 1
    /\ last_call' = [kind |-> "returned", value |-> "ok", func_raised |-> FALSE,
                     invocations |-> 1]
    /\ UNCHANGED <<decoration, wrapper_status, wrapper_handler, global_handler>>
    /\ EHFrame

\* wrapper / async_wrapper: the function body raises decoration.exc
CallRaises ==
    /\ wrapper_status = "decorated"
    /\ calls < MaxCalls
    /\ call_count + 1 <= decoration.failures
    /\ \E outcome \in StrategyOutcomes(decoration.category, FALSE) :
         LET handler == IF wrapper_handler.exists THEN wrapper_handler ELSE NewHandler
             after == handle_error(handler, decoration.exc, decoration.category,
                                   decoration.severity, decoration.auto_retry, outcome)
         IN wrapper_handler' = after
    /\ calls' = calls + 1
    /\ call_count' = call_count + 1
    /\ last_call' = OnError(decoration)
    /\ UNCHANGED <<decoration, wrapper_status, global_handler>>
    /\ EHFrame

\* get_global_error_handler
GetGlobalErrorHandler ==
    /\ ~global_handler.exists
    /\ global_handler' = NewHandler
    /\ UNCHANGED <<decoration, wrapper_status, wrapper_handler, call_count, calls,
                   last_call>>
    /\ EHFrame

\* handle_global_error(exception, category, severity, context); the modelled
\* callers pass a RuntimeError
HandleGlobalError ==
    /\ Len(global_handler.error_log) < MaxGlobalErrors
    /\ \E c \in InputCategories, v \in InputSeverities, has_file_path \in BOOLEAN :
         \E outcome \in StrategyOutcomes(c, has_file_path) :
           LET h == IF global_handler.exists THEN global_handler ELSE NewHandler
           IN global_handler' = handle_error(h, "RuntimeError", c, v, TRUE, outcome)
    /\ UNCHANGED <<decoration, wrapper_status, wrapper_handler, call_count, calls, last_call>>
    /\ EHFrame

ESInit ==
    /\ error_handler = NewHandler
    /\ handled = [errors |-> 0, resolved |-> 0]

\* handler.handle_error(exception, category, severity, context, auto_retry)
HandleError ==
    /\ handled.errors < MaxErrors
    /\ \E e \in Exceptions, c \in InputCategories, v \in InputSeverities,
          auto_retry \in BOOLEAN, has_file_path \in BOOLEAN :
         \E outcome \in StrategyOutcomes(c, has_file_path) :
           LET after == handle_error(error_handler, e, c, v, auto_retry, outcome)
           IN /\ error_handler' = after
              /\ handled' = [errors |-> handled.errors + 1,
                             resolved |-> handled.resolved
                                          + (IF auto_retry /\ c \in retry_strategies
                                                /\ outcome = "true" THEN 1 ELSE 0)]
    /\ ESFrame

(***************************************************************************)
(* PerformanceCache  (src/src/utils/performance_monitor.py)                *)
(*                                                                         *)
(* Every method runs under the cache's lock, so each is one atomic step.   *)
(* Python dictionaries iterate in insertion order; the three dictionaries  *)
(* are filled and emptied together, so one key order serves all three.     *)
(***************************************************************************)
\* PerformanceCache(max_size=..., ttl_seconds=...)
max_size == 1

ttl_seconds == 1

\* the clock stops after this many seconds
MaxTime == 2

\* a get of an entry already read this often is not modelled
MaxAccess == 2

\* one key more than the cache holds
Keys == 1..(max_size + 1)

Values == {"v1", "v2"}

EmptyCache == [order |-> << >>, cache |-> << >>, timestamps |-> << >>,
               access_counts |-> << >>]

Restrict(f, S) == [k \in S |-> f[k]]

Put(f, k, v) == [x \in (DOMAIN f) \cup {k} |-> IF x = k THEN v ELSE f[x]]

\* PerformanceCache._remove
remove(c, key) ==
    [order |-> SelectSeq(c.order, LAMBDA k : k # key),
     cache |-> Restrict(c.cache, (DOMAIN c.cache) \ {key}),
     timestamps |-> Restrict(c.timestamps, (DOMAIN c.timestamps) \ {key}),
     access_counts |-> Restrict(c.access_counts, (DOMAIN c.access_counts) \ {key})]

\* min(self._access_counts.items(), key=lambda x: x[1])[0]: the first key, in
\* dictionary order, of the smallest access count
LeastUsedKey(c) ==
    LET i == CHOOSE j \in 1..Len(c.order) :
                 /\ \A m \in 1..Len(c.order) :
                       c.access_counts[c.order[j]] <= c.access_counts[c.order[m]]
                 /\ \A m \in 1..(j - 1) :
                       c.access_counts[c.order[m]] > c.access_counts[c.order[j]]
    IN c.order[i]

\* PerformanceCache._evict_least_used
evict_least_used(c) ==
    IF c.order = << >> THEN c ELSE remove(c, LeastUsedKey(c))

\* an expiry test that lets an entry live one second longer
ExpiredLate(timestamp, t) == t - timestamp > ttl_seconds + 1

\* datetime.now() - timestamp > timedelta(seconds=self.ttl_seconds)
Expired(timestamp, t) == t - timestamp > ttl_seconds

\* PerformanceCache.get: the cache afterwards and the value returned
get(c, key, t) ==
    IF key \notin DOMAIN c.cache THEN [c |-> c, result |-> "None"]
    ELSE IF Expired(c.timestamps[key], t) THEN [c |-> remove(c, key), result |-> "None"]
    ELSE [c |-> [c EXCEPT !.access_counts[key] = @ + 1], result |-> c.cache[key]]

\* PerformanceCache.set
set(c, key, value, t) ==
    LET d == IF Len(c.order) >= max_size /\ key \notin DOMAIN c.cache
             THEN evict_least_used(c) ELSE c
    IN [order |-> IF key \in DOMAIN d.cache THEN d.order ELSE Append(d.order, key),
        cache |-> Put(d.cache, key, value),
        timestamps |-> Put(d.timestamps, key, t),
        access_counts |-> Put(d.access_counts, key, 1)]

\* the keys clear_expired removes
expired_keys(c, t) == {k \in DOMAIN c.timestamps : Expired(c.timestamps[k], t)}

\* PerformanceCache.clear_expired: the cache afterwards
clear_expired(c, t) ==
    LET gone == expired_keys(c, t)
    IN [order |-> SelectSeq(c.order, LAMBDA k : k \notin gone),
        cache |-> Restrict(c.cache, (DOMAIN c.cache) \ gone),
        timestamps |-> Restrict(c.timestamps, (DOMAIN c.timestamps) \ gone),
        access_counts |-> Restrict(c.access_counts, (DOMAIN c.access_counts) \ gone)]

NeverStored == [value |-> "None", at |-> 0]

PCInit ==
    /\ perf_cache = EmptyCache
    /\ now = 0
    /\ cache_op = [op |-> "init", key |-> 0, result |-> "None"]
    /\ stored = [k \in Keys |-> NeverStored]

CacheGet ==
    /\ \E key \in Keys :
         /\ key \in DOMAIN perf_cache.cache => perf_cache.access_counts[key] < MaxAccess
         /\ LET r == get(perf_cache, key, now)
            IN /\ perf_cache' = r.c
               /\ cache_op' = [op |-> "get", key |-> key, result |-> r.result]
    /\ UNCHANGED <<now, stored>>
    /\ PCFrame

CacheSet ==
    /\ \E key \in Keys, value \in Values :
         /\ perf_cache' = set(perf_cache, key, value, now)
         /\ cache_op' = [op |-> "set", key |-> key, result |-> "None"]
         /\ stored' = [stored EXCEPT ![key] = [value |-> value, at |-> now]]
    /\ UNCHANGED now
    /\ PCFrame

CacheClearExpired ==
    /\ perf_cache' = clear_expired(perf_cache, now)
    /\ cache_op' = [op |-> "clear_expired", key |-> 0,
                    result |-> "None"]
    /\ UNCHANGED <<now, stored>>
    /\ PCFrame

\* a second passes
Tick ==
    /\ now < MaxTime
    /\ now' = now + 1
    /\ cache_op' = [op |-> "tick", key |-> 0, result |-> "None"]
    /\ UNCHANGED <<perf_cache, stored>>
    /\ PCFrame

(***************************************************************************)
(* PerformanceMonitor.optimize_concurrent_screenshots                      *)
(*                                                                         *)
(* asyncio.gather starts one controlled_task per submitted task; each      *)
(* waits for the semaphore, awaits its task and releases the semaphore.    *)
(* The tasks reach the semaphore in the order of the list and its waiters  *)
(* are served first come first served, so a free slot goes to the first    *)
(* waiting task; any running task may be the next to finish.               *)
(***************************************************************************)
\* at most this many tasks are submitted
MaxTasks == 3

\* the largest max_concurrent a caller asks for
MaxConcurrent == 2

\* PerformanceThresholds.max_concurrent_tasks
max_concurrent_tasks == 5

\* what awaiting a task does: return its screenshot or raise
TaskOutcomes == {"returns", "raises"}

\* max_concurrent as passed by the caller; 0 stands for None, which "or"
\* treats alike
Requested == 0..MaxConcurrent

\* psutil's readings, on both sides of the two limits
CpuReadings == {70, 71}

MemoryReadings == {80, 81}

\* a limit that leaves the resource readings out
UnadjustedLimit(requested, cpu_percent, memory_percent) ==
    IF requested = 0 THEN max_concurrent_tasks ELSE requested

\* lines 393-400: the limit in force
effective_limit(requested, cpu_percent, memory_percent) ==
    LET mc == IF requested = 0 THEN max_concurrent_tasks ELSE requested
    IN IF cpu_percent > 70 THEN Max2(1, mc \div 2)
       ELSE IF memory_percent > 80 THEN Max2(1, mc \div 3)
       ELSE mc

\* what gather holds for task i: its result, or the exception it raised
TaskResult(tasks, i) ==
    [kind |-> IF tasks[i] = "returns" THEN "result" ELSE "exception", task |-> i]

\* a gather that lists the results in the order the tasks completed
GatherAsCompleted(tasks, done) ==
    [j \in 1..Len(done) |-> TaskResult(tasks, done[j])]

\* asyncio.gather(*..., return_exceptions=True): one entry per awaitable, in
\* the order of the arguments
gather(tasks, done) ==
    [i \in 1..Len(tasks) |-> TaskResult(tasks, i)]

OCIdle ==
    /\ screenshot_tasks = << >>
    /\ max_concurrent = 0
    /\ semaphore = 0
    /\ task_state = << >>
    /\ finished = << >>
    /\ gather_results = << >>
    /\ oc_pc = "idle"
    /\ oc_call = [requested |-> 0, cpu_percent |-> 70, memory_percent |-> 80]

\* the call up to asyncio.gather
OCInit ==
    \E n \in 0..MaxTasks, requested \in Requested,
       cpu_percent \in CpuReadings, memory_percent \in MemoryReadings :
        /\ screenshot_tasks \in [1..n -> TaskOutcomes]
        /\ max_concurrent = effective_limit(requested, cpu_percent, memory_percent)
        /\ semaphore = max_concurrent
        /\ task_state = [i \in 1..n |-> "waiting"]
        /\ finished = << >>
        /\ gather_results = << >>
        /\ oc_pc = "gathering"
        /\ oc_call = [requested |-> requested, cpu_percent |-> cpu_percent,
                      memory_percent |-> memory_percent]

\* async with semaphore: the first waiting task takes a free slot
TaskAcquires ==
    /\ oc_pc = "gathering"
    /\ semaphore > 0
    /\ \E i \in DOMAIN task_state :
         /\ task_state[i] = "waiting"
         /\ \A j \in 1..(i - 1) : task_state[j] # "waiting"
         /\ task_state' = [task_state EXCEPT ![i] = "running"]
    /\ semaphore' = semaphore - 1
    /\ UNCHANGED <<screenshot_tasks, max_concurrent, finished, gather_results, oc_pc,
                   oc_call>>
    /\ OCFrame

\* await task() returns or raises; the slot is given back
TaskCompletes ==
    /\ oc_pc = "gathering"
    /\ \E i \in DOMAIN task_state :
         /\ task_state[i] = "running"
         /\ task_state' = [task_state EXCEPT ![i] = "done"]
         /\ finished' = Append(finished, i)
    /\ semaphore' = semaphore + 1
    /\ UNCHANGED <<screenshot_tasks, max_concurrent, gather_results, oc_pc, oc_call>>
    /\ OCFrame

\* every task is done: gather hands over its list and the method returns it
GatherReturns ==
    /\ oc_pc = "gathering"
    /\ \A i \in DOMAIN task_state : task_state[i] = "done"
    /\ gather_results' = gather(screenshot_tasks, finished)
    /\ oc_pc' = "returned"
    /\ UNCHANGED <<screenshot_tasks, max_concurrent, semaphore, task_state, finished,
                   oc_call>>
    /\ OCFrame

(***************************************************************************)
(* PerformanceMonitor: start_monitoring, stop_monitoring, _monitoring_loop,*)
(* _record_execution_time and get_performance_summary                      *)
(***************************************************************************)
\* the monitoring loop is followed for this many readings
MaxHistory == 2

\* at most this many execution times are recorded
MaxMetrics == 1

\* list(self.resource_history)[-10:]
recent_count == 10

\* ResourceUsage as far as the summary reads it
Readings == [cpu_percent : CpuReadings, memory_percent : MemoryReadings]

\* the measured functions
FuncNames == {"take_screenshot"}

NoSummary == [called |-> FALSE]

RECURSIVE SumSeq(_)
SumSeq(q) == IF q = << >> THEN 0 ELSE Head(q) + SumSeq(Tail(q))

LastN(q, n) == SubSeq(q, Max2(1, Len(q) - n + 1), Len(q))

\* PerformanceCache.get_stats, after its clear_expired
cache_get_stats(c) == [size |-> Len(c.order), max_size |-> max_size]

\* TaskQueue.get_stats
task_queue_get_stats == [max_concurrent |-> max_concurrent_tasks]

\* PerformanceMonitor.get_performance_summary: the dictionary returned.
\* Averages are kept as <<sum, count>>.
get_performance_summary(active, history, times, metrics, c) ==
    IF history = << >> THEN [called |-> TRUE, status |-> "no_data"]
    ELSE LET recent == LastN(history, recent_count)
         IN [called |-> TRUE,
             status |-> IF active THEN "active" ELSE "inactive",
             resource_usage |->
                 [avg_cpu_percent |->
                      <<SumSeq([i \in 1..Len(recent) |-> recent[i].cpu_percent]), Len(recent)>>,
                  avg_memory_percent |->
                      <<SumSeq([i \in 1..Len(recent) |-> recent[i].memory_percent]), Len(recent)>>,
                  current_cpu |-> recent[Len(recent)].cpu_percent,
                  current_memory |-> recent[Len(recent)].memory_percent],
             execution_times |-> {f \in DOMAIN times : times[f] > 0},
             cache_stats |-> cache_get_stats(c),
             task_queue_stats |-> task_queue_get_stats,
             metrics_count |-> metrics,
             thresholds |-> {"max_cpu", "max_memory", "max_execution_time"}]

\* PerformanceMonitor.__init__
PSInit ==
    /\ monitoring_active = FALSE
    /\ task_queue_running = FALSE
    /\ resource_history = << >>
    /\ metrics_history = 0
    /\ execution_times = << >>
    /\ summary = NoSummary

StartMonitoring ==
    /\ ~monitoring_active
    /\ monitoring_active' = TRUE
    /\ task_queue_running' = TRUE
    /\ UNCHANGED <<resource_history, metrics_history, execution_times, summary>>
    /\ UNCHANGED <<perf_cache, cache_op>>
    /\ PSFrame

StopMonitoring ==
    /\ monitoring_active
    /\ monitoring_active' = FALSE
    /\ task_queue_running' = FALSE
    /\ UNCHANGED <<resource_history, metrics_history, execution_times, summary>>
    /\ UNCHANGED <<perf_cache, cache_op>>
    /\ PSFrame

\* one round of _monitoring_loop: a reading is appended and the cache swept
MonitoringLoop ==
    /\ monitoring_active
    /\ Len(resource_history) < MaxHistory
    /\ \E r \in Readings : resource_history' = Append(resource_history, r)
    /\ perf_cache' = clear_expired(perf_cache, now)
    /\ cache_op' = [op |-> "clear_expired", key |-> 0, result |-> "None"]
    /\ UNCHANGED <<monitoring_active, task_queue_running, metrics_history,
                   execution_times, summary>>
    /\ PSFrame

\* one round of _monitoring_loop in which _get_resource_usage raises
MonitoringLoopError ==
    /\ monitoring_active
    /\ UNCHANGED psVars
    /\ UNCHANGED <<perf_cache, cache_op>>
    /\ PSFrame

RecordExecutionTime ==
    /\ metrics_history < MaxMetrics
    /\ \E f \in FuncNames :
         execution_times' = Put(execution_times, f,
                                IF f \in DOMAIN execution_times
                                THEN execution_times[f] + 1 ELSE 1)
    /\ metrics_history' = metrics_history + 1
    /\ UNCHANGED <<monitoring_active, task_queue_running, resource_history, summary>>
    /\ UNCHANGED <<perf_cache, cache_op>>
    /\ PSFrame

GetPerformanceSummary ==
    /\ LET c == IF resource_history = << >> THEN perf_cache
                ELSE clear_expired(perf_cache, now)
       IN /\ summary' = get_performance_summary(monitoring_active, resource_history,
                                                execution_times, metrics_history, c)
          /\ perf_cache' = c
          /\ cache_op' = IF resource_history = << >> THEN cache_op
                         ELSE [op |-> "clear_expired", key |-> 0, result |-> "None"]
    /\ UNCHANGED <<monitoring_active, task_queue_running, resource_history,
                   metrics_history, execution_times>>
    /\ PSFrame

(***************************************************************************)
(* HealthChecker  (src/src/utils/reliability_manager.py)                   *)
(***************************************************************************)
\* number of registered components
NumComponents == 2

\* failures are counted up to this number
MaxFailureCount == 3

Components == 1..NumComponents

ComponentStatus == {"healthy", "degraded", "unhealthy", "failed", "unknown"}

\* what the check function does within perform_check
CheckOutcomes == {"true", "false", "raises", "timeout"}

\* ComponentHealth(component_name, ComponentStatus.UNKNOWN)
NewHealth == [status |-> "unknown", failure_count |-> 0]

\* a failure handling under which the second failure already counts as failed
FailedAtTwo(h) ==
    LET n == h.failure_count + 1
    IN [status |-> IF n >= 2 THEN "failed" ELSE "degraded",
        failure_count |-> n]

\* HealthChecker._handle_failure
handle_failure(h) ==
    LET n == h.failure_count + 1
    IN [status |-> IF n >= 3 THEN "failed"
                   ELSE IF n >= 2 THEN "unhealthy"
                   ELSE "degraded",
        failure_count |-> n]

\* a check under which a failed component stays failed
PerformCheckFailedStays(h, outcome) ==
    IF outcome = "true"
    THEN IF h.status = "failed" THEN h
         ELSE [status |-> "healthy", failure_count |-> 0]
    ELSE handle_failure(h)

\* HealthChecker.perform_check: the health afterwards
perform_check(h, outcome) ==
    IF outcome = "true"
    THEN [status |-> "healthy", failure_count |-> 0]
    ELSE handle_failure(h)

HCInit ==
    /\ health = [c \in Components |-> NewHealth]
    /\ last_check = [component |-> 0, outcome |-> "none"]
    /\ reached = [c \in Components |-> {"unknown"}]

\* one round of _check_loop for one component
PerformCheck ==
    /\ \E c \in Components, outcome \in CheckOutcomes :
         /\ outcome # "true" => health[c].failure_count < MaxFailureCount
         /\ health' = [health EXCEPT ![c] = perform_check(@, outcome)]
         /\ last_check' = [component |-> c, outcome |-> outcome]
         /\ reached' = [reached EXCEPT ![c] = @ \cup {health'[c].status}]
    /\ HCFrame

(***************************************************************************)
(* ReliabilityManager  (src/src/utils/reliability_manager.py)              *)
(*                                                                         *)
(* start runs without suspending.  graceful_shutdown suspends at each      *)
(* handler, at the cancelled monitoring task and at each checker it stops; *)
(* the check loops and the monitoring loop run in between.  The calls of   *)
(* the interface are made one after the other, and the components are      *)
(* registered without a recovery strategy, for which attempt_recovery      *)
(* returns without doing anything.                                         *)
(***************************************************************************)
\* at most this many shutdown handlers are added
MaxHandlers == 1

NoShutdown == [step |-> "idle", i |-> 0]

\* HealthChecker.start for the first registered checker only
StartFirstChecker(order, running) ==
    [c \in Components |-> IF order # << >> /\ c = order[1] THEN TRUE ELSE running[c]]

\* for checker in self.health_checkers.values(): await checker.start()
start_checkers(order, running) ==
    [c \in Components |-> IF c \in Range(order) THEN TRUE ELSE running[c]]

RMInit ==
    /\ rm_running = FALSE
    /\ health_checkers = << >>
    /\ checker_running = [c \in Components |-> FALSE]
    /\ monitoring_task = "none"
    /\ save_task = "none"
    /\ component_states = {}
    /\ shutdown_handlers = 0
    /\ shutdown = NoShutdown
    /\ unsaved_starts = 0
    /\ rm_op = [op |-> "none"]

\* register_component with a name not registered yet
RegisterComponent ==
    /\ shutdown = NoShutdown
    /\ \E c \in Components \ Range(health_checkers) :
         /\ health_checkers' = Append(health_checkers, c)
         /\ health' = [health EXCEPT ![c] = NewHealth]
         /\ checker_running' = [checker_running EXCEPT ![c] = FALSE]
    /\ rm_op' = [op |-> "register_component"]
    /\ UNCHANGED <<rm_running, monitoring_task, save_task, component_states,
                   shutdown_handlers, shutdown, unsaved_starts>>
    /\ RMFrame

AddGracefulShutdownHandler ==
    /\ shutdown = NoShutdown
    /\ shutdown_handlers < MaxHandlers
    /\ shutdown_handlers' = shutdown_handlers + 1
    /\ rm_op' = [op |-> "add_graceful_shutdown_handler"]
    /\ UNCHANGED <<rm_running, health_checkers, checker_running, monitoring_task,
                   save_task, component_states, shutdown, unsaved_starts, health>>
    /\ RMFrame

\* ReliabilityManager.start while not running
Start ==
    /\ shutdown = NoShutdown
    /\ ~rm_running
    /\ rm_running' = TRUE
    /\ checker_running' = start_checkers(health_checkers, checker_running)
    /\ save_task' = (IF save_task = "none" THEN "running" ELSE save_task)
    /\ monitoring_task' = "running"
    /\ unsaved_starts' = unsaved_starts + 1
    /\ rm_op' = [op |-> "start"]
    /\ UNCHANGED <<health_checkers, component_states, shutdown_handlers, shutdown,
                   health>>
    /\ RMFrame

\* ReliabilityManager.start while running: if self.running: return
StartWhileRunning ==
    /\ shutdown = NoShutdown
    /\ rm_running
    /\ rm_op' = [op |-> "start_while_running"]
    /\ UNCHANGED <<rm_running, health_checkers, checker_running, monitoring_task,
                   save_task, component_states, shutdown_handlers, shutdown,
                   unsaved_starts, health>>
    /\ RMFrame

\* ReliabilityManager.stop while not running: if not self.running: return
StopWhileStopped ==
    /\ shutdown = NoShutdown
    /\ ~rm_running
    /\ rm_op' = [op |-> "stop_while_stopped"]
    /\ UNCHANGED <<rm_running, health_checkers, checker_running, monitoring_task,
                   save_task, component_states, shutdown_handlers, shutdown,
                   unsaved_starts, health>>
    /\ RMFrame

\* ReliabilityManager.stop while running: graceful_shutdown is entered
Stop ==
    /\ shutdown = NoShutdown
    /\ rm_running
    /\ shutdown' = [step |-> "handlers", i |-> 0]
    /\ UNCHANGED <<rm_running, health_checkers, checker_running, monitoring_task,
                   save_task, component_states, shutdown_handlers, unsaved_starts,
                   rm_op, health>>
    /\ RMFrame

\* graceful_shutdown: the next handler is awaited; what it raises is logged
ShutdownHandler ==
    /\ shutdown.step = "handlers"
    /\ shutdown.i < shutdown_handlers
    /\ shutdown' = [shutdown EXCEPT !.i = @ + 1]
    /\ UNCHANGED <<rm_running, health_checkers, checker_running, monitoring_task,
                   save_task, component_states, shutdown_handlers, unsaved_starts,
                   rm_op, health>>
    /\ RMFrame

\* graceful_shutdown: running = False, the monitoring task is cancelled
ShutdownStopMonitoring ==
    /\ shutdown.step = "handlers"
    /\ shutdown.i = shutdown_handlers
    /\ rm_running' = FALSE
    /\ monitoring_task' = (IF monitoring_task = "none" THEN "none" ELSE "cancelled")
    /\ shutdown' = [step |-> "checkers", i |-> 0]
    /\ UNCHANGED <<health_checkers, checker_running, save_task, component_states,
                   shutdown_handlers, unsaved_starts, rm_op, health>>
    /\ RMFrame

\* graceful_shutdown: await checker.stop() for the next checker
ShutdownStopChecker ==
    /\ shutdown.step = "checkers"
    /\ shutdown.i < Len(health_checkers)
    /\ checker_running' = [checker_running EXCEPT ![health_checkers[shutdown.i + 1]] = FALSE]
    /\ shutdown' = [shutdown EXCEPT !.i = @ + 1]
    /\ UNCHANGED <<rm_running, health_checkers, monitoring_task, save_task,
                   component_states, shutdown_handlers, unsaved_starts, rm_op, health>>
    /\ RMFrame

\* graceful_shutdown: stop_auto_save cancels the save task and saves the state
ShutdownSave ==
    /\ shutdown.step = "checkers"
    /\ shutdown.i = Len(health_checkers)
    /\ save_task' = (IF save_task = "none" THEN "none" ELSE "cancelled")
    /\ unsaved_starts' = 0
    /\ shutdown' = NoShutdown
    /\ rm_op' = [op |-> "stop"]
    /\ UNCHANGED <<rm_running, health_checkers, checker_running, monitoring_task,
                   component_states, shutdown_handlers, health>>
    /\ RMFrame

\* one round of the check loop of a running checker
CheckLoop ==
    /\ \E c \in Range(health_checkers), outcome \in CheckOutcomes :
         /\ checker_running[c]
         /\ outcome # "true" => health[c].failure_count < MaxFailureCount
         /\ health' = [health EXCEPT ![c] = perform_check(@, outcome)]
    /\ UNCHANGED rmVars
    /\ RMFrame

\* one round of ReliabilityManager._monitoring_loop
ManagerMonitoringLoop ==
    /\ monitoring_task = "running"
    /\ rm_running
    /\ component_states' = component_states \cup Range(health_checkers)
    /\ UNCHANGED <<rm_running, health_checkers, checker_running, monitoring_task,
                   save_task, shutdown_handlers, shutdown, unsaved_starts, rm_op, health>>
    /\ RMFrame

(***************************************************************************)
(* CodeChangeMonitor  (src/src/monitors/code_change_monitor.py)            *)
(*                                                                         *)
(* A project directory can be named by several paths; the monitor keys its *)
(* dictionaries by the resolved path.  A Timer is started, and then either *)
(* cancelled or run.  Each method is one step.                             *)
(***************************************************************************)
NumProjects == 2

MaxChanges == 1

ProjectKeys == 1..NumProjects

PathForms == {"absolute", "relative"}

ProjectPaths == [dir : ProjectKeys, form : PathForms]

\* str(Path(project_path).resolve())
resolve(path) == path.dir

DictSet(d, k, v) == [x \in DOMAIN d \cup {k} |-> IF x = k THEN v ELSE d[x]]

DictDel(d, k) == [x \in DOMAIN d \ {k} |-> d[x]]

\* CodeChangeMonitor.__init__
NewMonitor ==
    [running |-> FALSE, observers |-> {}, watch_configs |-> << >>,
     pending_changes |-> << >>, debounce_timers |-> << >>,
     started_timers |-> [k \in ProjectKeys |-> 0]]

\* the monitor held in the variables
Monitor ==
    [running |-> cm_running, observers |-> observers, watch_configs |-> watch_configs,
     pending_changes |-> pending_changes, debounce_timers |-> debounce_timers,
     started_timers |-> started_timers]

SetMonitor(m) ==
    /\ cm_running' = m.running
    /\ observers' = m.observers
    /\ watch_configs' = m.watch_configs
    /\ pending_changes' = m.pending_changes
    /\ debounce_timers' = m.debounce_timers
    /\ started_timers' = m.started_timers

\* Timer.cancel on the timer kept for project_key: a timer that has run or
\* was cancelled is not affected
cancel(m, project_key) ==
    IF project_key \in DOMAIN m.debounce_timers
       /\ m.debounce_timers[project_key] = "started"
    THEN [m EXCEPT !.debounce_timers[project_key] = "cancelled",
                   !.started_timers[project_key] = @ - 1]
    ELSE m

\* remove_project_watch; stop_raises: observer.stop() raises
remove_project_watch(m, project_key, stop_raises) ==
    IF project_key \in m.observers /\ stop_raises
    THEN [monitor |-> m, result |-> FALSE]
    ELSE LET c == cancel(m, project_key)
         IN  [monitor |-> [c EXCEPT !.observers = @ \ {project_key},
                                    !.watch_configs = DictDel(@, project_key),
                                    !.pending_changes = DictDel(@, project_key),
                                    !.debounce_timers = DictDel(@, project_key)],
              result |-> TRUE]

\* add_project_watch; start_raises: scheduling or starting the Observer raises
add_project_watch(m, watchdog, path, path_exists, stop_raises, start_raises) ==
    IF ~watchdog THEN [monitor |-> m, result |-> FALSE]
    ELSE IF ~path_exists THEN [monitor |-> m, result |-> FALSE]
    ELSE LET project_key == resolve(path)
             removed == IF project_key \in m.observers
                        THEN remove_project_watch(m, project_key, stop_raises).monitor
                        ELSE m
         IN  IF start_raises
             THEN [monitor |-> removed, result |-> FALSE]
             ELSE [monitor |->
                       [removed EXCEPT
                           !.observers = @ \cup {project_key},
                           !.watch_configs = DictSet(@, project_key, path),
                           !.pending_changes = DictSet(@, project_key, 0)],
                   result |-> TRUE]

\* _setup_debounce_timer
setup_debounce_timer(m, project_key) ==
    LET c == cancel(m, project_key)
    IN  [c EXCEPT !.debounce_timers = DictSet(@, project_key, "started"),
                  !.started_timers[project_key] = @ + 1]

\* handle_change_event for an event of the project at project_path
handle_change_event(m, project_path) ==
    LET project_key == resolve(project_path)
    IN  IF project_key \notin DOMAIN m.pending_changes THEN m
        ELSE LET appended == [m EXCEPT !.pending_changes[project_key] = @ + 1]
             IN  IF project_key \in DOMAIN m.watch_configs
                 THEN setup_debounce_timer(appended, project_key)
                 ELSE appended

\* _process_pending_changes, run by the timer of project_key
process_pending_changes(m, project_key) ==
    LET ran == [m EXCEPT !.debounce_timers[project_key] = "run",
                         !.started_timers[project_key] = @ - 1]
    IN  IF project_key \notin DOMAIN m.pending_changes THEN ran
        ELSE IF m.pending_changes[project_key] = 0 THEN ran
        ELSE [ran EXCEPT !.pending_changes[project_key] = 0]

\* start_monitoring
start_monitoring(m) == IF m.running THEN m ELSE [m EXCEPT !.running = TRUE]

\* the loop of stop_monitoring over list(self.observers.keys())
RECURSIVE remove_all(_, _, _)
remove_all(m, keys, failing) ==
    IF keys = {} THEN m
    ELSE LET k == CHOOSE x \in keys : \A y \in keys : x <= y
         IN  remove_all(remove_project_watch(m, k, k \in failing).monitor,
                        keys \ {k}, failing)

RECURSIVE cancel_all(_, _)
cancel_all(m, keys) ==
    IF keys = {} THEN m
    ELSE LET k == CHOOSE x \in keys : TRUE
         IN  cancel_all(cancel(m, k), keys \ {k})

\* stop_monitoring; failing: the projects whose observer.stop() raises
stop_monitoring(m, failing) ==
    IF ~m.running THEN m
    ELSE LET stopped == [m EXCEPT !.running = FALSE]
             removed == remove_all(stopped, stopped.observers, failing)
             cancelled == cancel_all(removed, DOMAIN removed.debounce_timers)
         IN  [cancelled EXCEPT !.debounce_timers = << >>]

RECURSIVE pending_total(_, _)
pending_total(f, keys) ==
    IF keys = {} THEN 0
    ELSE LET k == CHOOSE x \in keys : TRUE
         IN  f[k] + pending_total(f, keys \ {k})

\* get_status
get_status(m, watchdog) ==
    [running |-> m.running,
     watchdog_available |-> watchdog,
     watched_projects |-> Cardinality(m.observers),
     project_list |-> {m.watch_configs[k] : k \in DOMAIN m.watch_configs},
     pending_changes_count |-> pending_total(m.pending_changes, DOMAIN m.pending_changes)]

\* what one call of add_project_watch meets: whether the directory exists,
\* whether stopping the old observer raises, whether starting the new one raises
WatchEnvs ==
    {env \in [path : ProjectPaths, path_exists : BOOLEAN, stop_raises : BOOLEAN,
              start_raises : BOOLEAN] :
        ~env.path_exists => ~env.stop_raises /\ ~env.start_raises}

CMNew ==
    /\ cm_running = NewMonitor.running
    /\ observers = NewMonitor.observers
    /\ watch_configs = NewMonitor.watch_configs
    /\ pending_changes = NewMonitor.pending_changes
    /\ debounce_timers = NewMonitor.debounce_timers
    /\ started_timers = NewMonitor.started_timers
    /\ cm_op = [op |-> "init"]

CMIdle == WATCHDOG_AVAILABLE = TRUE /\ CMNew

CMInit == WATCHDOG_AVAILABLE \in BOOLEAN /\ CMNew

CMStartMonitoring ==
    /\ SetMonitor(start_monitoring(Monitor))
    /\ cm_op' = [op |-> "start_monitoring"]
    /\ UNCHANGED WATCHDOG_AVAILABLE
    /\ CMFrame

AddProjectWatch ==
    \E env \in WatchEnvs :
        LET r == add_project_watch(Monitor, WATCHDOG_AVAILABLE, env.path,
                                   env.path_exists, env.stop_raises, env.start_raises)
        IN  /\ SetMonitor(r.monitor)
            /\ cm_op' = [op |-> "add_project_watch", result |-> r.result]
            /\ UNCHANGED WATCHDOG_AVAILABLE
            /\ CMFrame

RemoveProjectWatch ==
    \E project_key \in ProjectKeys, stop_raises \in BOOLEAN :
        LET r == remove_project_watch(Monitor, project_key, stop_raises)
        IN  /\ SetMonitor(r.monitor)
            /\ cm_op' = [op |-> "remove_project_watch", result |-> r.result]
            /\ UNCHANGED WATCHDOG_AVAILABLE
            /\ CMFrame

\* an observer reports a change of a watched file to its CodeChangeHandler
HandleChangeEvent ==
    \E k \in observers :
        /\ pending_changes[k] < MaxChanges
        /\ SetMonitor(handle_change_event(Monitor, watch_configs[k]))
        /\ UNCHANGED <<WATCHDOG_AVAILABLE, cm_op>>
        /\ CMFrame

\* a started timer runs _process_pending_changes
ProcessPendingChanges ==
    \E k \in DOMAIN debounce_timers :
        /\ debounce_timers[k] = "started"
        /\ SetMonitor(process_pending_changes(Monitor, k))
        /\ UNCHANGED <<WATCHDOG_AVAILABLE, cm_op>>
        /\ CMFrame

CMStopMonitoring ==
    \E failing \in SUBSET ProjectKeys :
        /\ SetMonitor(stop_monitoring(Monitor, failing))
        /\ cm_op' = [op |-> "stop_monitoring"]
        /\ UNCHANGED WATCHDOG_AVAILABLE
        /\ CMFrame

GetStatus ==
    /\ cm_op' = [op |-> "get_status", result |-> get_status(Monitor, WATCHDOG_AVAILABLE)]
    /\ UNCHANGED <<WATCHDOG_AVAILABLE, cm_running, observers, watch_configs,
                   pending_changes, debounce_timers, started_timers>>
    /\ CMFrame

(***************************************************************************)
(* ScreenshotManagerMCP and MCPServer                                      *)
(* (src/src/integrations/mcp_server.py)                                    *)
(*                                                                         *)
(* A handler returns a dictionary; its keys "success", "error" and         *)
(* "message" are kept, a missing text being "".  What the detector, the    *)
(* config generator, the browser capture and the capture script do during  *)
(* one request is that request's environment.                              *)
(***************************************************************************)
ToolNames ==
    {"auto_screenshot_on_create", "take_screenshot", "detect_project",
     "generate_config", "get_status", "start_code_monitoring",
     "stop_code_monitoring", "get_monitoring_status"}

\* the names a client may ask for
RequestedNames == ToolNames \cup {"list_tools"}

Viewports == {"desktop", "tablet", "mobile"}

NoStatus == [monitoring_active |-> FALSE, watched_projects |-> 0, present |-> FALSE]

\* a dictionary returned by a handler
Returned(success, error, message) ==
    [raised |-> FALSE, has_success |-> TRUE, success |-> success,
     error |-> error, message |-> message, status |-> NoStatus]

\* an exception leaving a handler
Raised ==
    [raised |-> TRUE, has_success |-> FALSE, success |-> FALSE,
     error |-> "", message |-> "", status |-> NoStatus]

\* handle_request: {"error": f"Tool {tool_name} not found"}
NotFound ==
    [raised |-> FALSE, has_success |-> FALSE, success |-> FALSE,
     error |-> "Tool not found", message |-> "", status |-> NoStatus]

NoResponse ==
    [raised |-> FALSE, has_success |-> FALSE, success |-> FALSE,
     error |-> "", message |-> "", status |-> NoStatus]

\* a handler without its except clause
Uncaught(message) == Raised

\* the except clause of a handler: success False, error str(e), and the
\* message the handler adds, if it adds one
Caught(message) == Returned(FALSE, "str(e)", message)

\* what one request meets; a step that is not reached has its first value
WorkflowEnvs ==
    {env \in [path_valid : BOOLEAN,
              detect : {"found", "none", "raises"},
              config_exists : BOOLEAN,
              generate : {"file", "none", "raises"},
              playwright : {"ok", "import_error", "raises"},
              captured : SUBSET Viewports,
              report_raises : BOOLEAN,
              script : {"rc0", "missing", "rc_nonzero", "raises"}] :
        /\ ~env.path_valid => env.detect = "found"
        /\ env.detect # "found" => env.config_exists /\ env.generate = "file"
        /\ (env.detect # "found" \/ env.generate = "raises") => env.playwright = "ok"
        /\ (env.detect # "found" \/ env.generate = "raises" \/ env.playwright # "ok")
               => env.captured = {} /\ ~env.report_raises
        /\ env.captured = {} => ~env.report_raises
        /\ (env.detect # "found" \/ env.generate = "raises"
              \/ env.playwright # "import_error") => env.script = "rc0"}

\* the requests that stop before the capture: detection and configuration
DetectionEnvs ==
    {env \in WorkflowEnvs :
        env.playwright = "ok" /\ env.captured = {} /\ env.script = "rc0"}

\* ScreenshotResult(success=False, error=str(e)) of the workflow's except clause
WorkflowError(step) ==
    [success |-> FALSE, screenshots |-> {}, error |-> "str(e)", failure |-> step]

\* the ScreenshotResult built at the end of the workflow
WorkflowResult(screenshots, step) ==
    [success |-> Cardinality(screenshots) > 0,
     screenshots |-> screenshots,
     error |-> IF screenshots # {} THEN "" ELSE "screenshot failed",
     failure |-> step]

\* _execute_screenshot_workflow
execute_screenshot_workflow(env) ==
    IF ~env.path_valid THEN WorkflowError("Path")
    ELSE IF env.detect = "raises" THEN WorkflowError("detect_project")
    ELSE IF env.detect = "none"
         THEN [success |-> FALSE, screenshots |-> {}, error |-> "not detected",
               failure |-> "detect_project"]
    ELSE IF ~env.config_exists /\ env.generate = "raises"
         THEN WorkflowError("generate_and_save")
    ELSE IF env.playwright = "raises" THEN WorkflowError("PlaywrightCapture")
    ELSE IF env.playwright = "ok"
         THEN IF env.captured # {} /\ env.report_raises
              THEN WorkflowError("generate_html_report")
              ELSE WorkflowResult(env.captured,
                                  IF env.captured = {} THEN "capture_viewport"
                                  ELSE "none")
    ELSE \* ImportError: the basic capture
         IF env.script = "raises" THEN WorkflowError("take_screenshot.sh")
         ELSE IF env.script = "rc_nonzero"
              THEN WorkflowResult({}, "take_screenshot.sh")
              ELSE WorkflowResult({"basic"}, "none")

\* what a handler gives back: its response, the step that failed, and the
\* code monitor it leaves behind
Outcome(resp, step, created, m) ==
    [response |-> resp, failure |-> step, code_monitor |-> created, monitor |-> m]

handle_auto_screenshot(env, created, m) ==
    LET result == execute_screenshot_workflow(env)
    IN  Outcome(Returned(result.success, "",
                         IF result.success THEN "auto screenshot done" ELSE "error"),
                result.failure, created, m)

handle_manual_screenshot(env, created, m) ==
    LET result == execute_screenshot_workflow(env)
    IN  Outcome(Returned(result.success, "", "screenshots taken"),
                result.failure, created, m)

handle_project_detection(env, created, m) ==
    IF ~env.path_valid THEN Outcome(Caught(""), "Path", created, m)
    ELSE IF env.detect = "raises" THEN Outcome(Caught(""), "detect_project", created, m)
    ELSE IF env.detect = "found"
         THEN Outcome(Returned(TRUE, "", "project detected"), "none", created, m)
         ELSE Outcome(Returned(FALSE, "", "project not detected"), "detect_project",
                      created, m)

\* generate_and_save gives the written file, or None, or raises
handle_config_generation(env, created, m) ==
    IF ~env.path_valid THEN Outcome(Caught(""), "Path", created, m)
    ELSE IF env.generate = "raises"
         THEN Outcome(Caught(""), "generate_and_save", created, m)
    ELSE IF env.generate = "file"
         THEN Outcome(Returned(TRUE, "", "config generated"), "none", created, m)
         ELSE Outcome(Returned(FALSE, "", "config generation failed"),
                      "generate_and_save", created, m)

handle_status_check(env, created, m) ==
    Outcome(Returned(TRUE, "", "running"), "none", created, m)

\* what a request of a monitoring tool meets
MonitoringEnvs ==
    {env \in [path_valid : BOOLEAN, path : ProjectPaths, path_exists : BOOLEAN,
              stop_raises : BOOLEAN, start_raises : BOOLEAN] :
        /\ ~env.path_valid => env.path_exists
        /\ ~env.path_exists => ~env.start_raises}

\* the code monitor is created and started by the first request
handle_start_code_monitoring(env, created, m, watchdog) ==
    LET monitor == IF created THEN m ELSE start_monitoring(NewMonitor)
    IN  IF ~env.path_valid
        THEN Outcome(Caught("error while starting"), "Path", TRUE, monitor)
        ELSE LET added == add_project_watch(monitor, watchdog, env.path,
                                            env.path_exists, env.stop_raises,
                                            env.start_raises)
             IN  IF added.result
                 THEN Outcome(Returned(TRUE, "", "monitoring started"), "none",
                              TRUE, added.monitor)
                 ELSE Outcome(Returned(FALSE, "could not start monitoring", ""),
                              "add_project_watch", TRUE, added.monitor)

handle_stop_code_monitoring(env, created, m) ==
    IF ~created
    THEN Outcome(Returned(FALSE, "monitoring not started", ""), "code_monitor",
                 created, m)
    ELSE IF ~env.path_valid
    THEN Outcome(Caught("error while stopping"), "Path", created, m)
    ELSE LET removed == remove_project_watch(m, resolve(env.path), env.stop_raises)
         IN  IF removed.result
             THEN Outcome(Returned(TRUE, "", "monitoring stopped"), "none",
                          created, removed.monitor)
             ELSE Outcome(Returned(FALSE, "could not stop monitoring", ""),
                          "remove_project_watch", created, removed.monitor)

handle_get_monitoring_status(created, m, watchdog) ==
    IF ~created
    THEN Outcome([Returned(TRUE, "", "") EXCEPT
                      !.status = [monitoring_active |-> FALSE, watched_projects |-> 0,
                                  present |-> TRUE]],
                 "none", created, m)
    ELSE LET status == get_status(m, watchdog)
         IN  Outcome([Returned(TRUE, "", "") EXCEPT
                          !.status = [monitoring_active |-> status.running,
                                      watched_projects |-> status.watched_projects,
                                      present |-> TRUE]],
                     "none", created, m)

\* ScreenshotManagerMCP.setup_tools
setup_tools ==
    [name \in ToolNames |->
        CASE name = "auto_screenshot_on_create" -> "handle_auto_screenshot"
          [] name = "take_screenshot" -> "handle_manual_screenshot"
          [] name = "detect_project" -> "handle_project_detection"
          [] name = "generate_config" -> "handle_config_generation"
          [] name = "get_status" -> "handle_status_check"
          [] name = "start_code_monitoring" -> "handle_start_code_monitoring"
          [] name = "stop_code_monitoring" -> "handle_stop_code_monitoring"
          [] name = "get_monitoring_status" -> "handle_get_monitoring_status"]

\* handle_request answering an unknown name with the status handler
HandleRequestDefault(registry, tool_name) ==
    IF tool_name \in DOMAIN registry THEN registry[tool_name]
    ELSE registry["get_status"]

\* handle_request: the handler that is run for tool_name, "none" if there is none
handle_request(registry, tool_name) ==
    IF tool_name \in DOMAIN registry THEN registry[tool_name] ELSE "none"

\* the call of a handler
call_handler(handler, wenv, menv, created, m, watchdog) ==
    CASE handler = "handle_auto_screenshot" -> handle_auto_screenshot(wenv, created, m)
      [] handler = "handle_manual_screenshot" -> handle_manual_screenshot(wenv, created, m)
      [] handler = "handle_project_detection" -> handle_project_detection(wenv, created, m)
      [] handler = "handle_config_generation" -> handle_config_generation(wenv, created, m)
      [] handler = "handle_status_check" -> handle_status_check(wenv, created, m)
      [] handler = "handle_start_code_monitoring" ->
             handle_start_code_monitoring(menv, created, m, watchdog)
      [] handler = "handle_stop_code_monitoring" ->
             handle_stop_code_monitoring(menv, created, m)
      [] handler = "handle_get_monitoring_status" ->
             handle_get_monitoring_status(created, m, watchdog)

\* the files the capture steps of a workflow wrote: the viewports whose
\* capture_viewport returned True, or the basic file when take_screenshot.sh
\* ran and exited with 0
produced_files(env) ==
    IF ~env.path_valid \/ env.detect # "found" THEN {}
    ELSE IF ~env.config_exists /\ env.generate = "raises" THEN {}
    ELSE IF env.playwright = "ok" THEN env.captured
    ELSE IF env.playwright = "import_error" /\ env.script = "rc0" THEN {"basic"}
    ELSE {}

NoWorkflow == [ran |-> FALSE]

\* what the screenshot handlers' workflow returned, next to what was written
workflow_of(handler, wenv) ==
    IF handler \in {"handle_auto_screenshot", "handle_manual_screenshot"}
    THEN LET result == execute_screenshot_workflow(wenv)
         IN  [ran |-> TRUE, success |-> result.success,
              screenshots |-> result.screenshots, produced |-> produced_files(wenv)]
    ELSE NoWorkflow

\* the environment of a request that meets no failure
QuietWorkflowEnv ==
    [path_valid |-> TRUE, detect |-> "found", config_exists |-> TRUE,
     generate |-> "file", playwright |-> "ok", captured |-> Viewports,
     report_raises |-> FALSE, script |-> "rc0"]

QuietMonitoringEnv ==
    [path_valid |-> TRUE, path |-> [dir |-> 1, form |-> "absolute"],
     path_exists |-> TRUE, stop_raises |-> FALSE, start_raises |-> FALSE]

\* the keys started successfully and not stopped since
watched_after(handler, menv, resp, watched) ==
    IF handler = "handle_start_code_monitoring" /\ resp.success
    THEN watched \cup {resolve(menv.path)}
    ELSE IF handler = "handle_stop_code_monitoring" /\ resp.success
    THEN watched \ {resolve(menv.path)}
    ELSE watched

\* ScreenshotManagerMCP.__init__
MCPInit ==
    /\ tools = setup_tools
    /\ code_monitor = FALSE
    /\ response = NoResponse
    /\ invoked = {}
    /\ failure = "none"
    /\ last_request = [tool_name |-> "none", workflow |-> NoWorkflow]
    /\ watched_ok = {}
    /\ start_called = FALSE

\* MCPServer.handle_request(tool_name, args) in the given environment
Request(tool_name, wenv, menv) ==
    LET handler == handle_request(tools, tool_name)
    IN  /\ last_request' = [tool_name |-> tool_name,
                             workflow |-> workflow_of(handler, wenv)]
        /\ start_called' = (start_called \/ tool_name = "start_code_monitoring")
        /\ UNCHANGED tools
        /\ IF handler = "none"
           THEN /\ response' = NotFound
                /\ invoked' = {}
                /\ failure' = "none"
                /\ UNCHANGED <<code_monitor, watched_ok, cm_running, observers,
                               watch_configs, pending_changes, debounce_timers,
                               started_timers>>
           ELSE LET out == call_handler(handler, wenv, menv, code_monitor, Monitor,
                                        WATCHDOG_AVAILABLE)
                IN  /\ response' = out.response
                    /\ invoked' = {handler}
                    /\ failure' = out.failure
                    /\ code_monitor' = out.code_monitor
                    /\ watched_ok' = watched_after(handler, menv, out.response,
                                                   watched_ok)
                    /\ SetMonitor(out.monitor)

RequestAutoScreenshot ==
    \E wenv \in WorkflowEnvs :
        /\ Request("auto_screenshot_on_create", wenv, QuietMonitoringEnv)
        /\ MCPFrame

RequestTakeScreenshot ==
    \E wenv \in WorkflowEnvs :
        /\ Request("take_screenshot", wenv, QuietMonitoringEnv)
        /\ MCPFrame

RequestDetectProject ==
    \E wenv \in DetectionEnvs :
        /\ Request("detect_project", wenv, QuietMonitoringEnv)
        /\ MCPFrame

RequestGenerateConfig ==
    \E wenv \in DetectionEnvs :
        /\ Request("generate_config", wenv, QuietMonitoringEnv)
        /\ MCPFrame

RequestGetStatus ==
    /\ Request("get_status", QuietWorkflowEnv, QuietMonitoringEnv)
    /\ MCPFrame

RequestStartCodeMonitoring ==
    \E menv \in MonitoringEnvs :
        /\ Request("start_code_monitoring", QuietWorkflowEnv, menv)
        /\ MCPFrame

RequestStopCodeMonitoring ==
    \E menv \in MonitoringEnvs :
        /\ Request("stop_code_monitoring", QuietWorkflowEnv, menv)
        /\ MCPFrame

RequestGetMonitoringStatus ==
    /\ Request("get_monitoring_status", QuietWorkflowEnv, QuietMonitoringEnv)
    /\ MCPFrame

\* a request for a name that was never registered
RequestUnknownTool ==
    \E tool_name \in RequestedNames \ ToolNames :
        /\ Request(tool_name, QuietWorkflowEnv, QuietMonitoringEnv)
        /\ MCPFrame

(***************************************************************************)
(* WebAppMonitor: load_config and run                                      *)
(* (src/src/monitors/webapp_monitor.py)                                    *)
(*                                                                         *)
(* The config file is missing, unreadable, not JSON, JSON that is not an   *)
(* object, or a JSON object holding some of the keys.  A dictionary is a   *)
(* function on its keys.  Only the ports of ProbePorts are ever open.      *)
(***************************************************************************)
MaxAdditional == 2

\* a port that is no default port
ExtraPort == 3333

\* the ports a config file may name, and the ports that may be listening
ConfigPorts == {DEFAULT_PORTS[1], DEFAULT_PORTS[2], ExtraPort}

ProbePorts == ConfigPorts

PortLists == UNION {[1..n -> {DEFAULT_PORTS[1], ExtraPort}] : n \in 0..MaxAdditional}

\* the default_config of load_config (the capture section is not modelled)
default_config ==
    [check_interval |-> 2, additional_ports |-> << >>, exclude_ports |-> {},
     startup_timeout |-> 30]

FileKinds == {"missing", "unreadable", "no_json", "no_object", "object"}

\* the objects a config file may hold: any of the keys, with their values
LoadedConfigs ==
    {[k \in keys |->
         CASE k = "additional_ports" -> a
           [] k = "exclude_ports" -> e
           [] k = "check_interval" -> 5] :
       keys \in SUBSET {"additional_ports", "exclude_ports", "check_interval"},
       a \in PortLists, e \in SUBSET ConfigPorts}

ConfigFiles ==
    {[kind |-> k, loaded |-> << >>] : k \in FileKinds \ {"object"}}
    \cup {[kind |-> "object", loaded |-> l] : l \in LoadedConfigs}

\* dict.update
update(d, other) ==
    [k \in DOMAIN d \cup DOMAIN other |-> IF k \in DOMAIN other THEN other[k] ELSE d[k]]

\* load_config keeping every port
KeepAllPorts(all_ports, exclude_ports) == all_ports

\* [p for p in all_ports if p not in exclude_ports]
filter_ports(all_ports, exclude_ports) ==
    LET Kept(p) == p \notin exclude_ports
    IN  SelectSeq(all_ports, Kept)

\* load_config: the config it leaves for the given file
load_config(file) ==
    IF file.kind = "object" THEN update(default_config, file.loaded)
    ELSE default_config

\* load_config: the monitored ports for a config
ports_of(cfg) ==
    filter_ports(DEFAULT_PORTS \o cfg.additional_ports, cfg.exclude_ports)

\* PortMonitor.__init__
NewPortMonitor == [ports |-> DEFAULT_PORTS, active_apps |-> {}]

\* before WebAppMonitor(config_path) is called
WCNew ==
    /\ wm_config = << >>
    /\ monitored_ports = << >>
    /\ port_monitor = NewPortMonitor
    /\ detected_apps = {}
    /\ polled = {}
    /\ wm_pc = "new"

WCIdle ==
    /\ config_file = [kind |-> "missing", loaded |-> << >>]
    /\ WCNew

WCInit ==
    /\ config_file \in ConfigFiles
    /\ WCNew

\* WebAppMonitor.__init__
Construct ==
    /\ wm_pc = "new"
    /\ wm_config' = load_config(config_file)
    /\ monitored_ports' = ports_of(load_config(config_file))
    /\ port_monitor' = NewPortMonitor
    /\ wm_pc' = "constructed"
    /\ UNCHANGED <<config_file, detected_apps, polled>>
    /\ WCFrame

\* run, up to its loop
RunStarts ==
    /\ wm_pc = "constructed"
    /\ port_monitor' = [port_monitor EXCEPT !.ports = monitored_ports]
    /\ wm_pc' = "running"
    /\ UNCHANGED <<config_file, wm_config, monitored_ports, detected_apps, polled>>
    /\ WCFrame

\* what the probes of one loop round find
ProbeEnvs == [ProbePorts -> {"closed", "listen_200_plain", "listen_500"}]

\* check_ports for the ports of the port monitor
probe(env, p) == IF p \in ProbePorts THEN IsActiveProbe(env[p]) ELSE FALSE

\* one round of the loop of run: detect_new_apps, detected_apps[app.port] = app
RunRound ==
    /\ wm_pc = "running"
    /\ \E env \in ProbeEnvs :
        LET probed == Range(port_monitor.ports)
            active == {p \in probed : probe(env, p)}
            new_ports == active \ port_monitor.active_apps
            stopped == {p \in probed : ~probe(env, p)} \cap port_monitor.active_apps
        IN  /\ port_monitor' =
                  [port_monitor EXCEPT
                      !.active_apps = (@ \cup new_ports) \ stopped]
            /\ detected_apps' = detected_apps \cup new_ports
            /\ polled' = polled \cup probed
    /\ UNCHANGED <<config_file, wm_config, monitored_ports, wm_pc>>
    /\ WCFrame

(***************************************************************************)
(* mcp_screenshot_server  (src/mcp_screenshot_server.py)                   *)
(*                                                                         *)
(* Running the script executes its module-level statements in order and    *)
(* then main.  A statement that reads a name bound by no earlier statement *)
(* raises NameError, which ends the process.                               *)
(***************************************************************************)
ServerTools ==
    {"list_monitors", "list_windows", "take_screenshot", "take_monitor_screenshot",
     "take_process_screenshot", "take_window_screenshot", "monitor_status",
     "start_monitor", "stop_monitor"}

\* the names a client may call
CalledNames == ServerTools \cup {"restart_monitor"}

\* the arguments of a call: None, an object without the tool's required
\* argument, an object with it
ArgumentKinds == {"None", "empty", "complete"}

\* subprocess.run in run_command
CommandOutcomes == {"rc0", "rc_nonzero", "timeout", "raises"}

\* the argument a tool reads with arguments[...]
RequiresArgument(name) ==
    name \in {"take_monitor_screenshot", "take_process_screenshot",
              "take_window_screenshot"}

\* run_command: the "success" of its result
run_command(outcome) == outcome = "rc0"

\* handle_call_tool: the text it answers with, or the KeyError it raises
handle_call_tool(name, arguments, outcome) ==
    IF name \notin ServerTools THEN [raised |-> FALSE, content |-> "unknown tool"]
    ELSE IF RequiresArgument(name) /\ arguments # "complete"
         THEN [raised |-> TRUE, content |-> "KeyError"]
    ELSE IF run_command(outcome) THEN [raised |-> FALSE, content |-> "stdout"]
    ELSE [raised |-> FALSE, content |-> "error: stderr"]

NoToolCall == [name |-> "none"]

\* before the script is run
SSNew ==
    /\ MCP_AVAILABLE = FALSE
    /\ module_names = {}
    /\ stderr_lines = {}
    /\ ss_pc = "import"
    /\ ss_mode = "none"
    /\ last_tool_call = NoToolCall

SSIdle == mcp_installed = TRUE /\ SSNew

SSInit == mcp_installed \in BOOLEAN /\ SSNew

\* lines 11-21: the try block around the imports
ImportMcp ==
    /\ ss_pc = "import"
    /\ MCP_AVAILABLE' = mcp_installed
    /\ module_names' =
           IF mcp_installed
           THEN module_names \cup {"MCP_AVAILABLE", "Server", "InitializationOptions",
                                   "mcp", "types"}
           ELSE module_names \cup {"MCP_AVAILABLE"}
    /\ stderr_lines' =
           IF mcp_installed THEN stderr_lines
           ELSE stderr_lines \cup {"standalone mode", "pip3 install mcp"}
    /\ ss_pc' = "create_server"
    /\ UNCHANGED <<mcp_installed, ss_mode, last_tool_call>>
    /\ SSFrame

\* lines 24-25: if MCP_AVAILABLE: server = Server(...)
CreateServer ==
    /\ ss_pc = "create_server"
    /\ module_names' = IF MCP_AVAILABLE THEN module_names \cup {"server"}
                       ELSE module_names
    /\ ss_pc' = "list_tools"
    /\ UNCHANGED <<mcp_installed, MCP_AVAILABLE, stderr_lines, ss_mode, last_tool_call>>
    /\ SSFrame

\* lines 28-196: the script paths, the guarded handle_list_tools, run_command
DefineListTools ==
    /\ ss_pc = "list_tools"
    /\ module_names' =
           module_names \cup {"SCRIPT_DIR", "TAKE_SCREENSHOT_SCRIPT",
                              "SCREENSHOT_MANAGER_SCRIPT", "run_command"}
               \cup (IF MCP_AVAILABLE THEN {"handle_list_tools"} ELSE {})
    /\ ss_pc' = "call_tool"
    /\ UNCHANGED <<mcp_installed, MCP_AVAILABLE, stderr_lines, ss_mode, last_tool_call>>
    /\ SSFrame

\* lines 198-275: @server.call_tool() and handle_call_tool, not guarded;
\* then run_standalone and main are defined
DefineCallTool ==
    /\ ss_pc = "call_tool"
    /\ IF "server" \in module_names
       THEN /\ module_names' = module_names \cup {"handle_call_tool", "run_standalone",
                                                  "main"}
            /\ ss_pc' = "main"
       ELSE /\ module_names' = module_names
            /\ ss_pc' = "NameError"
    /\ UNCHANGED <<mcp_installed, MCP_AVAILABLE, stderr_lines, ss_mode, last_tool_call>>
    /\ SSFrame

\* lines 351-372: asyncio.run(main())
Main ==
    /\ ss_pc = "main"
    /\ ss_mode' = IF ~MCP_AVAILABLE THEN "standalone" ELSE "stdio"
    /\ ss_pc' = "serving"
    /\ UNCHANGED <<mcp_installed, MCP_AVAILABLE, module_names, stderr_lines,
                   last_tool_call>>
    /\ SSFrame

\* the stdio server passes a call to handle_call_tool
CallTool ==
    /\ ss_pc = "serving"
    /\ ss_mode = "stdio"
    /\ \E name \in CalledNames, arguments \in ArgumentKinds, outcome \in CommandOutcomes :
        last_tool_call' = [name |-> name, arguments |-> arguments, outcome |-> outcome,
                           answer |-> handle_call_tool(name, arguments, outcome)]
    /\ UNCHANGED <<mcp_installed, MCP_AVAILABLE, module_names, stderr_lines, ss_pc,
                   ss_mode>>
    /\ SSFrame

(***************************************************************************)
(* get_global_error_handler under threads                                  *)
(* src/src/utils/error_handler.py                                          *)
(***************************************************************************)
\* the threads that call the function, and the calls each of them makes
NumThreads == 2

MaxGets == 2

Threads == 1..NumThreads

\* _global_error_handler = None
None == 0

\* the module as imported: no handler yet, no thread inside the function
GHInit ==
    /\ global_error_handler = None
    /\ instances = 0
    /\ gh_pc = [t \in Threads |-> "idle"]
    /\ gh_new = [t \in Threads |-> None]
    /\ gh_calls = [t \in Threads |-> 0]
    /\ gh_returned = {}

\* if _global_error_handler is None: the thread reads the global and branches
TestIsNone(t) ==
    /\ gh_pc[t] = "idle"
    /\ gh_calls[t] < MaxGets
    /\ gh_pc' = [gh_pc EXCEPT ![t] = IF global_error_handler = None
                                     THEN "construct" ELSE "return"]
    /\ UNCHANGED <<global_error_handler, instances, gh_new, gh_calls, gh_returned>>

\* ErrorHandler(): the right-hand side of the assignment builds a new object
ConstructHandler(t) ==
    /\ gh_pc[t] = "construct"
    /\ instances' = instances + 1
    /\ gh_new' = [gh_new EXCEPT ![t] = instances + 1]
    /\ gh_pc' = [gh_pc EXCEPT ![t] = "store"]
    /\ UNCHANGED <<global_error_handler, gh_calls, gh_returned>>

\* _global_error_handler = <the new object>
StoreGlobal(t) ==
    /\ gh_pc[t] = "store"
    /\ global_error_handler' = gh_new[t]
    /\ gh_pc' = [gh_pc EXCEPT ![t] = "return"]
    /\ UNCHANGED <<instances, gh_new, gh_calls, gh_returned>>

\* return _global_error_handler: the thread reads the global again
ReturnGlobal(t) ==
    /\ gh_pc[t] = "return"
    /\ gh_returned' = gh_returned \cup {global_error_handler}
    /\ gh_calls' = [gh_calls EXCEPT ![t] = @ + 1]
    /\ gh_pc' = [gh_pc EXCEPT ![t] = "idle"]
    /\ UNCHANGED <<global_error_handler, instances, gh_new>>

TestStep == \E t \in Threads : TestIsNone(t) /\ GHFrame

ConstructStep == \E t \in Threads : ConstructHandler(t) /\ GHFrame

StoreStep == \E t \in Threads : StoreGlobal(t) /\ GHFrame

ReturnStep == \E t \in Threads : ReturnGlobal(t) /\ GHFrame

(***************************************************************************)
(* Debouncing: handle_change_event on the observer's event thread and      *)
(* _process_pending_changes on the threading.Timer threads                 *)
(* src/src/monitors/code_change_monitor.py                                 *)
(***************************************************************************)
\* the events of one watched project, and how far the clock runs
MaxEvents == 2

MaxClock == 4

\* ProjectWatchConfig.debounce_seconds
debounce_seconds == 2

\* the project is watched, nothing is pending, no timer has been set
DBInit ==
    /\ db_now = 0
    /\ list_objects = << <<>> >>
    /\ db_pending = 1
    /\ timers = <<>>
    /\ db_timer = 0
    /\ ev_pc = "idle"
    /\ ev_ref = 0
    /\ arrivals = <<>>
    /\ batches = <<>>

\* time passes
DBTick ==
    /\ db_now < MaxClock
    /\ db_now' = db_now + 1
    /\ UNCHANGED <<list_objects, db_pending, timers, db_timer, ev_pc, ev_ref, arrivals,
                   batches>>
    /\ DBFrame

\* handle_change_event: the project is watched, the thread loads
\* self.pending_changes[project_key]
EventArrives ==
    /\ ev_pc = "idle"
    /\ Len(arrivals) < MaxEvents
    /\ arrivals' = Append(arrivals, db_now)
    /\ ev_ref' = db_pending
    /\ ev_pc' = "append"
    /\ UNCHANGED <<db_now, list_objects, db_pending, timers, db_timer, batches>>
    /\ DBFrame

\* .append(event) on the list object that was loaded
EventAppended ==
    /\ ev_pc = "append"
    /\ list_objects' = [list_objects EXCEPT ![ev_ref] = Append(@, Len(arrivals))]
    /\ ev_pc' = "timer"
    /\ UNCHANGED <<db_now, db_pending, timers, db_timer, ev_ref, arrivals, batches>>
    /\ DBFrame

\* threading.Timer.cancel: it stops a timer that is still waiting only
cancel_timer(ts, i) ==
    IF i # 0 /\ ts[i].state = "waiting" THEN [ts EXCEPT ![i].state = "cancelled"] ELSE ts

\* _setup_debounce_timer: cancel the project's timer, start a new one
SetupDebounceTimer ==
    /\ ev_pc = "timer"
    /\ timers' = Append(cancel_timer(timers, db_timer),
                        [state |-> "waiting", deadline |-> db_now + debounce_seconds,
                         changes |-> 0])
    /\ db_timer' = Len(timers) + 1
    /\ ev_pc' = "idle"
    /\ UNCHANGED <<db_now, list_objects, db_pending, ev_ref, arrivals, batches>>
    /\ DBFrame

\* Timer.run: the interval has passed and the timer was not cancelled; the
\* function starts: changes = self.pending_changes[project_key], and it
\* returns if the list is empty
TimerFires ==
    /\ \E i \in 1..Len(timers) :
        /\ timers[i].state = "waiting"
        /\ db_now >= timers[i].deadline
        /\ timers' = [timers EXCEPT ![i] =
                        IF list_objects[db_pending] = <<>>
                        THEN [@ EXCEPT !.state = "done"]
                        ELSE [@ EXCEPT !.state = "clear", !.changes = db_pending]]
    /\ UNCHANGED <<db_now, list_objects, db_pending, db_timer, ev_pc, ev_ref, arrivals,
                   batches>>
    /\ DBFrame

\* self.pending_changes[project_key] = []
ClearPending ==
    /\ \E i \in 1..Len(timers) :
        /\ timers[i].state = "clear"
        /\ list_objects' = Append(list_objects, <<>>)
        /\ db_pending' = Len(list_objects) + 1
        /\ timers' = [timers EXCEPT ![i].state = "process"]
    /\ UNCHANGED <<db_now, db_timer, ev_pc, ev_ref, arrivals, batches>>
    /\ DBFrame

\* the statistics and the screenshot are made from the list held in changes
ProcessBatch ==
    /\ \E i \in 1..Len(timers) :
        /\ timers[i].state = "process"
        /\ batches' = Append(batches, [events |-> list_objects[timers[i].changes],
                                       at |-> db_now])
        /\ timers' = [timers EXCEPT ![i].state = "done"]
    /\ UNCHANGED <<db_now, list_objects, db_pending, db_timer, ev_pc, ev_ref, arrivals>>
    /\ DBFrame

(***************************************************************************)
(* WebAppMonitor.on_app_detected                                           *)
(* src/src/monitors/webapp_monitor.py, src/src/capture/playwright_capture.py *)
(***************************************************************************)
\* the detections handled, and config['startup_timeout'] in sleep intervals
MaxDetections == 2

startup_timeout == 2

\* what requests.get gives: a status code or an exception
StatusCodes == {200, 404, 500, 503}

GetOutcomes ==
    {[kind |-> "response", status_code |-> c] : c \in StatusCodes}
        \cup {[kind |-> k, status_code |-> 0] : k \in {"ConnectionError", "Exception"}}

NoAnswer == [kind |-> "none", status_code |-> 0]

\* how long one request takes, in sleep intervals
RequestTimes == {0, 1}

\* response.status_code < 500
AnyAnswer(outcome) == TRUE

is_ready(outcome) == outcome.kind = "response" /\ outcome.status_code < 500

\* what capture_screenshots meets: the import check run as a subprocess, the
\* import of the capture module, capture_webapp_sync, the basic capture
CaptureEnvs ==
    {e \in [check : {"rc0", "rc1", "raises"},
            import : {"ok", "ImportError", "raises"},
            sync : {"result", "None", "raises", "unavailable"},
            basic_raises : BOOLEAN] :
        /\ e.check # "rc0" => e.import = "ok"
        /\ e.import # "ok" => e.sync = "result"}

\* capture_basic_screenshot called after the calls made so far
capture_basic_screenshot(made, env) ==
    [calls |-> Append(made, "basic"), raised |-> env.basic_raises]

\* capture_webapp_sync: None without Playwright or when the capture raises
capture_webapp_sync(env) == IF env.sync = "result" THEN "result" ELSE "None"

\* a capture that keeps a missing result
PlaywrightOnly(env) ==
    IF env.import = "ImportError" THEN capture_basic_screenshot(<<>>, env)
    ELSE IF env.import = "raises" THEN [calls |-> <<>>, raised |-> TRUE]
    ELSE [calls |-> <<"playwright">>, raised |-> FALSE]

capture_with_playwright(env) ==
    IF env.import = "ImportError" THEN capture_basic_screenshot(<<>>, env)
    ELSE IF env.import = "raises" THEN [calls |-> <<>>, raised |-> TRUE]
    ELSE IF capture_webapp_sync(env) = "result"
         THEN [calls |-> <<"playwright">>, raised |-> FALSE]
         ELSE capture_basic_screenshot(<<"playwright">>, env)

\* capture_screenshots: the try block, then the except block
capture_screenshots(env) ==
    LET body == IF env.check = "raises" THEN [calls |-> <<>>, raised |-> TRUE]
                ELSE IF env.check = "rc1" THEN capture_basic_screenshot(<<>>, env)
                ELSE capture_with_playwright(env)
    IN IF body.raised THEN capture_basic_screenshot(body.calls, env) ELSE body

NoCapture == [called |-> FALSE]

\* no detection is being handled
ADInit ==
    /\ ad_pc = "idle"
    /\ ad_elapsed = 0
    /\ ad_status = NoAnswer
    /\ ad_trace = <<>>
    /\ ad_finished = {}
    /\ ad_count = 0
    /\ last_capture = NoCapture

\* on_app_detected is called and enters wait_for_app_ready
AppDetected ==
    /\ ad_pc = "idle"
    /\ ad_count < MaxDetections
    /\ ad_pc' = "wait"
    /\ ad_elapsed' = 0
    /\ ad_status' = NoAnswer
    /\ ad_trace' = <<>>
    /\ UNCHANGED <<ad_finished, ad_count, last_capture>>
    /\ ADFrame

\* one round of the loop: requests.get inside the time limit
WaitRequest ==
    /\ ad_pc = "wait"
    /\ ad_elapsed < startup_timeout
    /\ \E outcome \in GetOutcomes, taken \in RequestTimes :
        /\ ad_status' = outcome
        /\ ad_elapsed' = ad_elapsed + taken
        /\ IF is_ready(outcome)
           THEN ad_pc' = "capture" /\ ad_trace' = Append(ad_trace, "ready")
           ELSE ad_pc' = "sleep" /\ ad_trace' = ad_trace
    /\ UNCHANGED <<ad_finished, ad_count, last_capture>>
    /\ ADFrame

\* time.sleep(0.5)
WaitSleep ==
    /\ ad_pc = "sleep"
    /\ ad_elapsed' = ad_elapsed + 1
    /\ ad_pc' = "wait"
    /\ UNCHANGED <<ad_status, ad_trace, ad_finished, ad_count, last_capture>>
    /\ ADFrame

\* the time limit has passed: wait_for_app_ready returns False and
\* on_app_detected ends
WaitTimeout ==
    /\ ad_pc = "wait"
    /\ ad_elapsed >= startup_timeout
    /\ ad_finished' = ad_finished \cup {Append(ad_trace, "timeout")}
    /\ ad_trace' = Append(ad_trace, "timeout")
    /\ ad_count' = ad_count + 1
    /\ ad_pc' = "idle"
    /\ UNCHANGED <<ad_elapsed, ad_status, last_capture>>
    /\ ADFrame

\* self.capture_screenshots(app_info); an exception it lets out ends the handler
CaptureScreenshots ==
    /\ ad_pc = "capture"
    /\ \E env \in CaptureEnvs :
        LET r == capture_screenshots(env) IN
        /\ last_capture' = [called |-> TRUE, env |-> env, calls |-> r.calls,
                            raised |-> r.raised]
        /\ ad_trace' = Append(ad_trace, "capture")
        /\ IF r.raised
           THEN /\ ad_pc' = "idle"
                /\ ad_count' = ad_count + 1
                /\ ad_finished' = ad_finished \cup {Append(ad_trace, "capture")}
           ELSE /\ ad_pc' = "log"
                /\ UNCHANGED <<ad_count, ad_finished>>
    /\ UNCHANGED <<ad_elapsed, ad_status>>
    /\ ADFrame

\* save_detection_log: the entry is appended unless the file cannot be written
SaveDetectionLog ==
    /\ ad_pc = "log"
    /\ \E written \in BOOLEAN :
        LET t == IF written THEN Append(ad_trace, "log") ELSE ad_trace IN
        /\ ad_trace' = t
        /\ ad_finished' = ad_finished \cup {t}
    /\ ad_count' = ad_count + 1
    /\ ad_pc' = "idle"
    /\ UNCHANGED <<ad_elapsed, ad_status, last_capture>>
    /\ ADFrame

(***************************************************************************)
(* AutoRecovery: the monitoring loop's recovery of one component           *)
(* src/src/utils/reliability_manager.py                                    *)
(***************************************************************************)
\* the clock advances in steps of TimeStep seconds, MaxTicks times
TimeStep == 150

MaxTicks == 9

\* AutoRecovery.max_recovery_attempts and recovery_cooldown
max_recovery_attempts == 3

recovery_cooldown == 300

StrategyResults == {"true", "false", "raises"}

NeverRecovered == [set |-> FALSE, at |-> 0]

\* a check that ignores the cooldown
AlwaysCanAttempt(last_recovery, t) == TRUE

\* _can_attempt_recovery
can_attempt_recovery(last_recovery, t) ==
    ~last_recovery.set \/ t - last_recovery.at > recovery_cooldown

\* attempt_recovery up to the call of the strategy: what it decides
attempt_recovery(last_recovery, t, attempts, registered) ==
    IF ~can_attempt_recovery(last_recovery, t) THEN "cooldown"
    ELSE IF attempts >= max_recovery_attempts THEN "max_attempts"
    ELSE IF ~registered THEN "no_strategy"
    ELSE "invoked"

ARInit ==
    /\ ar_now = 0
    /\ ar_health = NewHealth
    /\ recovery_attempts = 0
    /\ last_recovery_time = NeverRecovered
    /\ recovery_strategies = FALSE
    /\ ar_pc = "idle"
    /\ ar_op = "none"
    /\ recovery_history = [n |-> 0, status |-> "unknown", attempts |-> 0,
                           last |-> NeverRecovered, at |-> 0]

ARTick ==
    /\ ar_now < MaxTicks * TimeStep
    /\ ar_now' = ar_now + TimeStep
    /\ UNCHANGED <<ar_health, recovery_attempts, last_recovery_time, recovery_strategies,
                   ar_pc, ar_op, recovery_history>>
    /\ ARFrame

\* register_recovery_strategy
RegisterRecoveryStrategy ==
    /\ ~recovery_strategies
    /\ recovery_strategies' = TRUE
    /\ UNCHANGED <<ar_now, ar_health, recovery_attempts, last_recovery_time, ar_pc,
                   ar_op, recovery_history>>
    /\ ARFrame

\* a round of the component's check loop
ARPerformCheck ==
    /\ \E outcome \in CheckOutcomes :
        /\ outcome # "true" => ar_health.failure_count < MaxFailureCount
        /\ ar_health' = perform_check(ar_health, outcome)
    /\ UNCHANGED <<ar_now, recovery_attempts, last_recovery_time, recovery_strategies,
                   ar_pc, ar_op, recovery_history>>
    /\ ARFrame

\* _monitoring_loop reaches the component: attempt_recovery is called for an
\* unhealthy or failed component and goes as far as calling the strategy
MonitoringRound ==
    /\ ar_pc = "idle"
    /\ LET decision == IF ar_health.status \in {"unhealthy", "failed"}
                       THEN attempt_recovery(last_recovery_time, ar_now,
                                             recovery_attempts, recovery_strategies)
                       ELSE "not_needed"
       IN /\ ar_op' = decision
          /\ IF decision = "invoked"
             THEN /\ recovery_attempts' = recovery_attempts + 1
                  /\ last_recovery_time' = [set |-> TRUE, at |-> ar_now]
                  /\ recovery_history' =
                        [n |-> recovery_history.n + 1,
                         status |-> ar_health.status,
                         attempts |-> recovery_attempts,
                         last |-> last_recovery_time,
                         at |-> ar_now]
                  /\ ar_pc' = "recovering"
             ELSE UNCHANGED <<recovery_attempts, last_recovery_time,
                              recovery_history, ar_pc>>
    /\ UNCHANGED <<ar_now, ar_health, recovery_strategies>>
    /\ ARFrame

\* the strategy returns or raises: success resets recovery_attempts
RecoveryReturns ==
    /\ ar_pc = "recovering"
    /\ \E result \in StrategyResults :
        /\ recovery_attempts' = IF result = "true" THEN 0 ELSE recovery_attempts
        /\ ar_op' = result
    /\ ar_pc' = "idle"
    /\ UNCHANGED <<ar_now, ar_health, last_recovery_time, recovery_strategies,
                   recovery_history>>
    /\ ARFrame

(***************************************************************************)
(* ReliabilityManager.graceful_shutdown under two callers                  *)
(* src/src/utils/reliability_manager.py                                    *)
(*                                                                         *)
(* stop() awaits graceful_shutdown; _signal_handler schedules it as a task *)
(* of its own.  A graceful_shutdown suspends at each handler it awaits, at *)
(* the cancelled monitoring task, at each checker it stops and at the      *)
(* cancelled save task; the other caller runs in between.  Handlers and    *)
(* components are added while no shutdown is in progress.                  *)
(***************************************************************************)
MaxShutdownHandlers == 2

MaxSDCheckers == 1

MaxCycles == 2

\* stop(), and the task created by _signal_handler
Callers == {"stop", "signal"}

HandlerOutcomes == {"returns", "raises"}

Event(ev, n, raised) == [ev |-> ev, n |-> n, raised |-> raised]

\* a loop that a raising handler ends
StopAtRaise(i, outcome, n) == IF outcome = "raises" THEN n ELSE i + 1

\* for handler in self.graceful_shutdown_handlers: try ... except Exception:
\* the number of handlers dealt with after handler i + 1 returned or raised
next_handler(i, outcome, n) == i + 1

SDInit ==
    /\ sd_running = FALSE
    /\ graceful_shutdown_handlers = 0
    /\ sd_checkers = 0
    /\ sd_checkers_running = {}
    /\ sd_monitoring = "none"
    /\ sd_cycle = 0
    /\ sd_pc = [p \in Callers |-> "idle"]
    /\ sd_i = [p \in Callers |-> 0]
    /\ sd_entry = [p \in Callers |-> [handlers |-> 0, checkers |-> 0]]
    /\ sd_trace = [p \in Callers |-> <<>>]
    /\ handler_runs = [h \in 1..MaxShutdownHandlers |-> 0]

NoShutdownInProgress == \A p \in Callers : sd_pc[p] \in {"idle", "done"}

\* add_graceful_shutdown_handler
SDAddHandler ==
    /\ NoShutdownInProgress
    /\ graceful_shutdown_handlers < MaxShutdownHandlers
    /\ graceful_shutdown_handlers' = graceful_shutdown_handlers + 1
    /\ UNCHANGED <<sd_running, sd_checkers, sd_checkers_running, sd_monitoring, sd_cycle,
                   sd_pc, sd_i, sd_entry, sd_trace, handler_runs>>
    /\ SDFrame

\* register_component
SDRegisterComponent ==
    /\ NoShutdownInProgress
    /\ sd_checkers < MaxSDCheckers
    /\ sd_checkers' = sd_checkers + 1
    /\ UNCHANGED <<sd_running, graceful_shutdown_handlers, sd_checkers_running,
                   sd_monitoring, sd_cycle, sd_pc, sd_i, sd_entry, sd_trace, handler_runs>>
    /\ SDFrame

\* start while not running: a new start/stop cycle begins
SDStart ==
    /\ ~sd_running
    /\ sd_cycle < MaxCycles
    /\ sd_running' = TRUE
    /\ sd_checkers_running' = 1..sd_checkers
    /\ sd_monitoring' = "running"
    /\ sd_cycle' = sd_cycle + 1
    /\ handler_runs' = [h \in 1..MaxShutdownHandlers |-> 0]
    /\ UNCHANGED <<graceful_shutdown_handlers, sd_checkers, sd_pc, sd_i, sd_entry, sd_trace>>
    /\ SDFrame

\* graceful_shutdown is entered: if not self.running: return
EnterShutdown(p) ==
    /\ sd_pc[p] \in {"idle", "done"}
    /\ sd_pc' = [sd_pc EXCEPT ![p] = IF sd_running THEN "handlers" ELSE "idle"]
    /\ sd_i' = [sd_i EXCEPT ![p] = 0]
    /\ sd_entry' = [sd_entry EXCEPT ![p] = [handlers |-> graceful_shutdown_handlers,
                                            checkers |-> sd_checkers]]
    /\ sd_trace' = [sd_trace EXCEPT ![p] = <<>>]
    /\ UNCHANGED <<sd_running, graceful_shutdown_handlers, sd_checkers,
                   sd_checkers_running, sd_monitoring, sd_cycle, handler_runs>>

\* the next handler is awaited; an exception it raises is logged
RunHandler(p, outcome) ==
    /\ sd_pc[p] = "handlers"
    /\ sd_i[p] < graceful_shutdown_handlers
    /\ handler_runs' = [handler_runs EXCEPT ![sd_i[p] + 1] = @ + 1]
    /\ sd_trace' = [sd_trace EXCEPT ![p] =
                        Append(@, Event("handler", sd_i[p] + 1, outcome = "raises"))]
    /\ sd_i' = [sd_i EXCEPT ![p] =
                    next_handler(sd_i[p], outcome, graceful_shutdown_handlers)]
    /\ UNCHANGED <<sd_running, graceful_shutdown_handlers, sd_checkers,
                   sd_checkers_running, sd_monitoring, sd_cycle, sd_pc, sd_entry>>

\* after the handlers: self.running = False, the monitoring task is cancelled
CancelMonitoring(p) ==
    /\ sd_pc[p] = "handlers"
    /\ sd_i[p] >= graceful_shutdown_handlers
    /\ sd_running' = FALSE
    /\ sd_monitoring' = (IF sd_monitoring = "none" THEN "none" ELSE "cancelled")
    /\ sd_trace' = [sd_trace EXCEPT ![p] =
                        @ \o << Event("running_false", 0, FALSE),
                                Event("cancel_monitoring", 0, FALSE) >>]
    /\ sd_pc' = [sd_pc EXCEPT ![p] = "checkers"]
    /\ sd_i' = [sd_i EXCEPT ![p] = 0]
    /\ UNCHANGED <<graceful_shutdown_handlers, sd_checkers, sd_checkers_running,
                   sd_cycle, sd_entry, handler_runs>>

\* for checker in self.health_checkers.values(): await checker.stop()
StopChecker(p) ==
    /\ sd_pc[p] = "checkers"
    /\ sd_i[p] < sd_checkers
    /\ sd_checkers_running' = sd_checkers_running \ {sd_i[p] + 1}
    /\ sd_trace' = [sd_trace EXCEPT ![p] = Append(@, Event("stop_checker", sd_i[p] + 1, FALSE))]
    /\ sd_i' = [sd_i EXCEPT ![p] = @ + 1]
    /\ UNCHANGED <<sd_running, graceful_shutdown_handlers, sd_checkers, sd_monitoring,
                   sd_cycle, sd_pc, sd_entry, handler_runs>>

\* await self.state_manager.stop_auto_save(): the state is saved
SaveState(p) ==
    /\ sd_pc[p] = "checkers"
    /\ sd_i[p] >= sd_checkers
    /\ sd_trace' = [sd_trace EXCEPT ![p] = Append(@, Event("save_state", 0, FALSE))]
    /\ sd_pc' = [sd_pc EXCEPT ![p] = "done"]
    /\ UNCHANGED <<sd_running, graceful_shutdown_handlers, sd_checkers,
                   sd_checkers_running, sd_monitoring, sd_cycle, sd_i, sd_entry,
                   handler_runs>>

SDEnter == \E p \in Callers : EnterShutdown(p) /\ SDFrame

SDHandler == \E p \in Callers, outcome \in HandlerOutcomes : RunHandler(p, outcome) /\ SDFrame

SDStopMonitoring == \E p \in Callers : CancelMonitoring(p) /\ SDFrame

SDStopChecker == \E p \in Callers : StopChecker(p) /\ SDFrame

SDSave == \E p \in Callers : SaveState(p) /\ SDFrame

(***************************************************************************)
(* CodeChangeMonitor: remove_project_watch and the debounce-timer thread   *)
(* src/src/monitors/code_change_monitor.py                                 *)
(*                                                                         *)
(* One project.  add_project_watch, handle_change_event and                *)
(* remove_project_watch run in the caller's thread; the Timer runs         *)
(* _process_pending_changes in a thread of its own, and the two threads    *)
(* switch between any two dictionary operations.  Timer.cancel() stops a   *)
(* timer that has not fired and does nothing to one whose function runs.   *)
(* Events are delivered while no timer function is running.                *)
(***************************************************************************)
MaxRWEvents == 2

MaxAdds == 2

ConfigKinds == {"auto", "manual"}

NoPending == [present |-> FALSE, n |-> 0]

\* threading.Timer.cancel()
timer_cancel(t) == IF t = "started" THEN "cancelled" ELSE t

RWInit ==
    /\ rw_observers = FALSE
    /\ rw_watch_configs = "absent"
    /\ rw_pending = NoPending
    /\ rw_timers = FALSE
    /\ rw_timer = "none"
    /\ rw_pc = "idle"
    /\ tt_pc = "idle"
    /\ tt_changes = 0
    /\ tt_config = "absent"
    /\ rw_removed = FALSE
    /\ after_removal = {}
    /\ rw_events = 0
    /\ rw_adds = 0

\* add_project_watch for a project that is not watched
RWAddProjectWatch ==
    /\ rw_pc = "idle"
    /\ ~rw_observers
    /\ rw_adds < MaxAdds
    /\ \E kind \in ConfigKinds : rw_watch_configs' = kind
    /\ rw_observers' = TRUE
    /\ rw_pending' = [present |-> TRUE, n |-> 0]
    /\ rw_removed' = FALSE
    /\ rw_adds' = rw_adds + 1
    /\ UNCHANGED <<rw_timers, rw_timer, rw_pc, tt_pc, tt_changes, tt_config,
                   after_removal, rw_events>>
    /\ RWFrame

\* handle_change_event for the project
RWHandleChangeEvent ==
    /\ rw_pc = "idle"
    /\ tt_pc = "idle"
    /\ rw_events < MaxRWEvents
    /\ rw_events' = rw_events + 1
    /\ IF ~rw_pending.present
       THEN UNCHANGED <<rw_pending, rw_timers, rw_timer>>
       ELSE /\ rw_pending' = [rw_pending EXCEPT !.n = @ + 1]
            /\ IF rw_watch_configs = "absent"
               THEN UNCHANGED <<rw_timers, rw_timer>>
               ELSE /\ rw_timers' = TRUE
                    /\ rw_timer' = "started"
    /\ UNCHANGED <<rw_observers, rw_watch_configs, rw_pc, tt_pc, tt_changes, tt_config,
                   rw_removed, after_removal, rw_adds>>
    /\ RWFrame

\* remove_project_watch: observer.stop(), observer.join(), del self.observers[key]
RemoveObserver ==
    /\ rw_pc = "idle"
    /\ rw_observers
    /\ rw_observers' = FALSE
    /\ rw_pc' = "configs"
    /\ UNCHANGED <<rw_watch_configs, rw_pending, rw_timers, rw_timer, tt_pc, tt_changes,
                   tt_config, rw_removed, after_removal, rw_events, rw_adds>>
    /\ RWFrame

\* del self.watch_configs[key]
RemoveConfig ==
    /\ rw_pc = "configs"
    /\ rw_watch_configs' = "absent"
    /\ rw_pc' = "pending"
    /\ UNCHANGED <<rw_observers, rw_pending, rw_timers, rw_timer, tt_pc, tt_changes,
                   tt_config, rw_removed, after_removal, rw_events, rw_adds>>
    /\ RWFrame

\* del self.pending_changes[key]
RemovePending ==
    /\ rw_pc = "pending"
    /\ rw_pending' = NoPending
    /\ rw_pc' = "timers"
    /\ UNCHANGED <<rw_observers, rw_watch_configs, rw_timers, rw_timer, tt_pc, tt_changes,
                   tt_config, rw_removed, after_removal, rw_events, rw_adds>>
    /\ RWFrame

\* the timer is cancelled and deleted, and remove_project_watch returns True
RemoveTimer ==
    /\ rw_pc = "timers"
    /\ rw_timer' = (IF rw_timers THEN timer_cancel(rw_timer) ELSE rw_timer)
    /\ rw_timers' = FALSE
    /\ rw_pc' = "idle"
    /\ rw_removed' = TRUE
    /\ UNCHANGED <<rw_observers, rw_watch_configs, rw_pending, tt_pc, tt_changes,
                   tt_config, after_removal, rw_events, rw_adds>>
    /\ RWFrame

\* the interval has passed: the timer thread calls _process_pending_changes
RWTimerFires ==
    /\ rw_timer = "started"
    /\ tt_pc = "idle"
    /\ rw_timer' = "fired"
    /\ tt_pc' = "test"
    /\ UNCHANGED <<rw_observers, rw_watch_configs, rw_pending, rw_timers, rw_pc,
                   tt_changes, tt_config, rw_removed, after_removal, rw_events, rw_adds>>
    /\ RWFrame

\* if project_key not in self.pending_changes: return
TimerTestsPending ==
    /\ tt_pc = "test"
    /\ tt_pc' = (IF rw_pending.present THEN "read" ELSE "idle")
    /\ UNCHANGED <<rw_observers, rw_watch_configs, rw_pending, rw_timers, rw_timer, rw_pc,
                   tt_changes, tt_config, rw_removed, after_removal, rw_events, rw_adds>>
    /\ RWFrame

\* changes = self.pending_changes[project_key] (a KeyError ends the thread);
\* if not changes: return
TimerReadsPending ==
    /\ tt_pc = "read"
    /\ tt_changes' = rw_pending.n
    /\ tt_pc' = (IF rw_pending.present /\ rw_pending.n > 0 THEN "clear" ELSE "idle")
    /\ UNCHANGED <<rw_observers, rw_watch_configs, rw_pending, rw_timers, rw_timer, rw_pc,
                   tt_config, rw_removed, after_removal, rw_events, rw_adds>>
    /\ RWFrame

\* self.pending_changes[project_key] = []: the batch is taken and counted
TimerClearsPending ==
    /\ tt_pc = "clear"
    /\ rw_pending' = [present |-> TRUE, n |-> 0]
    /\ after_removal' = (IF rw_removed THEN after_removal \cup {"batch"} ELSE after_removal)
    /\ tt_pc' = "config"
    /\ UNCHANGED <<rw_observers, rw_watch_configs, rw_timers, rw_timer, rw_pc, tt_changes,
                   tt_config, rw_removed, rw_events, rw_adds>>
    /\ RWFrame

\* config = self.watch_configs.get(project_key)
TimerGetsConfig ==
    /\ tt_pc = "config"
    /\ tt_config' = rw_watch_configs
    /\ tt_pc' = (IF rw_watch_configs = "auto" THEN "screenshot" ELSE "idle")
    /\ UNCHANGED <<rw_observers, rw_watch_configs, rw_pending, rw_timers, rw_timer, rw_pc,
                   tt_changes, rw_removed, after_removal, rw_events, rw_adds>>
    /\ RWFrame

\* _take_auto_screenshot is scheduled or run
TimerTakesScreenshot ==
    /\ tt_pc = "screenshot"
    /\ after_removal' = (IF rw_removed THEN after_removal \cup {"screenshot"}
                         ELSE after_removal)
    /\ tt_pc' = "idle"
    /\ UNCHANGED <<rw_observers, rw_watch_configs, rw_pending, rw_timers, rw_timer, rw_pc,
                   tt_changes, tt_config, rw_removed, rw_events, rw_adds>>
    /\ RWFrame

(***************************************************************************)
(* TaskQueue: start, stop, submit, _process_queue and _execute_task        *)
(* src/src/utils/performance_monitor.py                                    *)
(*                                                                         *)
(* The coroutines run in one event loop and switch at their awaits only:   *)
(* submit at "await future", _process_queue at queue.get() on an empty     *)
(* queue, _execute_task at the semaphore and at the task it awaits.  The   *)
(* submitted tasks themselves terminate, returning or raising.  The queue  *)
(* holds far fewer items than max_queue_size, so no submit is refused.     *)
(***************************************************************************)
MaxSubmits == 2

MaxStarts == 1

MaxStops == 1

\* TaskQueue(max_concurrent)
MaxTQConcurrent == 1

TQTasks == 1..MaxSubmits

\* the item stop puts on the queue
StopSignal == 0

TQInit ==
    /\ tq_running = FALSE
    /\ tq_queue = <<>>
    /\ tq_semaphore = MaxTQConcurrent
    /\ tq_pc = "none"
    /\ tq_future = [t \in TQTasks |-> "unsubmitted"]
    /\ tq_exec = [t \in TQTasks |-> "none"]
    /\ tq_starts = 0
    /\ tq_stops = 0

\* start: self._running = True; asyncio.create_task(self._process_queue())
TQStart ==
    /\ tq_pc \in {"none", "exited"}
    /\ tq_starts < MaxStarts
    /\ tq_running' = TRUE
    /\ tq_pc' = "created"
    /\ tq_starts' = tq_starts + 1
    /\ UNCHANGED <<tq_queue, tq_semaphore, tq_future, tq_exec, tq_stops>>
    /\ TQFrame

\* stop of a started queue: self._running = False; await self.queue.put(None)
TQStop ==
    /\ tq_starts > 0
    /\ tq_stops < MaxStops
    /\ tq_running' = FALSE
    /\ tq_queue' = Append(tq_queue, StopSignal)
    /\ tq_stops' = tq_stops + 1
    /\ UNCHANGED <<tq_semaphore, tq_pc, tq_future, tq_exec, tq_starts>>
    /\ TQFrame

\* submit, once the queue has been started: the item is put on the queue and
\* the caller awaits its future
TQSubmit ==
    /\ tq_starts > 0
    /\ \E t \in TQTasks :
        /\ tq_future[t] = "unsubmitted"
        /\ tq_future' = [tq_future EXCEPT ![t] = "pending"]
        /\ tq_queue' = Append(tq_queue, t)
    /\ UNCHANGED <<tq_running, tq_semaphore, tq_pc, tq_exec, tq_starts, tq_stops>>
    /\ TQFrame

\* _process_queue runs for the first time: while self._running
TQProcessorStarts ==
    /\ tq_pc = "created"
    /\ tq_pc' = (IF tq_running THEN "get" ELSE "exited")
    /\ UNCHANGED <<tq_running, tq_queue, tq_semaphore, tq_future, tq_exec, tq_starts,
                   tq_stops>>
    /\ TQFrame

\* one round of _process_queue: an item is taken; None ends the loop, any
\* other item gets its _execute_task, and the loop goes on while _running
TQProcessQueue ==
    /\ tq_pc = "get"
    /\ tq_queue # <<>>
    /\ tq_queue' = Tail(tq_queue)
    /\ IF Head(tq_queue) = StopSignal
       THEN /\ tq_pc' = "exited"
            /\ UNCHANGED tq_exec
       ELSE /\ tq_exec' = [tq_exec EXCEPT ![Head(tq_queue)] = "waiting"]
            /\ tq_pc' = (IF tq_running THEN "get" ELSE "exited")
    /\ UNCHANGED <<tq_running, tq_semaphore, tq_future, tq_starts, tq_stops>>
    /\ TQFrame

\* _execute_task: async with self.semaphore
TQAcquire ==
    /\ tq_semaphore > 0
    /\ \E t \in TQTasks :
        /\ tq_exec[t] = "waiting"
        /\ tq_exec' = [tq_exec EXCEPT ![t] = "running"]
    /\ tq_semaphore' = tq_semaphore - 1
    /\ UNCHANGED <<tq_running, tq_queue, tq_pc, tq_future, tq_starts, tq_stops>>
    /\ TQFrame

\* _execute_task: the task returns or raises; the future gets its result or
\* its exception and the semaphore is released
TQExecuteTask ==
    /\ \E t \in TQTasks, outcome \in {"result", "exception"} :
        /\ tq_exec[t] = "running"
        /\ tq_exec' = [tq_exec EXCEPT ![t] = "done"]
        /\ tq_future' = [tq_future EXCEPT ![t] = outcome]
    /\ tq_semaphore' = tq_semaphore + 1
    /\ UNCHANGED <<tq_running, tq_queue, tq_pc, tq_starts, tq_stops>>
    /\ TQFrame

(***************************************************************************)
(* ProjectDetector.scan_directory                                          *)
(* src/src/detectors/project_detector.py                                   *)
(*                                                                         *)
(* The file tree is a tree (no symbolic links) and is read as the scan     *)
(* goes: the content of a directory is drawn when detect_project is        *)
(* applied to it, its listing when iterdir is called.  A path is the       *)
(* sequence of names below the base path; a name is a sequence of          *)
(* characters.                                                             *)
(***************************************************************************)
\* the largest max_depth passed
MaxDepth == 2

\* the names in a directory: one plain, one hidden
EntryNames == << <<"a">>, <<".", "h">> >>

EntryKinds == {"absent", "file", "dir"}

\* what iterdir does: the kinds of the names, or PermissionError
Listings == [1..Len(EntryNames) -> EntryKinds]

\* a directory without anything the table knows, and one with a package.json
PlainDirectory ==
    Directory({}, [pkg_readable |-> TRUE, deps |-> {}], [req_readable |-> TRUE, reqs |-> {}])

PackageDirectory ==
    Directory({"package.json"}, [pkg_readable |-> TRUE, deps |-> {}],
              [req_readable |-> TRUE, reqs |-> {}])

ScanContents == {PlainDirectory, PackageDirectory}

\* sub_path.name.startswith('.')
startswith_dot(name) == Len(name) > 0 /\ name[1] = "."

\* a loop that enters every subdirectory
DescendAll(kind, name) == kind = "dir"

\* if sub_path.is_dir() and not sub_path.name.startswith('.')
should_descend(kind, name) == kind = "dir" /\ ~startswith_dot(name)

Frame(path, depth, kind) ==
    [path |-> path, depth |-> depth, kind |-> kind, pc |-> "enter", todo |-> <<>>]

\* the entries of a listing that exist, in the order iterdir yields them
listed(listing) ==
    SelectSeq([i \in 1..Len(EntryNames) |-> [name |-> EntryNames[i], kind |-> listing[i]]],
              LAMBDA e : e.kind # "absent")

Innermost == sc_stack[Len(sc_stack)]

Return == SubSeq(sc_stack, 1, Len(sc_stack) - 1)

SCInit ==
    /\ sc_pc = "idle"
    /\ sc_max_depth = 0
    /\ sc_stack = <<>>
    /\ sc_projects = <<>>
    /\ sc_entries = {}
    /\ sc_inspected = {}

\* scan_directory(base_path, max_depth): _scan_recursive(base_path, 0)
ScanDirectory ==
    /\ sc_pc = "idle"
    /\ \E max_depth \in 0..MaxDepth, kind \in {"dir", "file"} :
        /\ sc_max_depth' = max_depth
        /\ sc_stack' = << Frame(<<>>, 0, kind) >>
        /\ sc_entries' = {[path |-> <<>>, kind |-> kind]}
    /\ sc_pc' = "scanning"
    /\ sc_projects' = <<>>
    /\ sc_inspected' = {}
    /\ SCFrame

\* _scan_recursive up to its loop: the depth test, is_dir, detect_project,
\* and iterdir for a directory that is no project
ScanRecursive ==
    /\ sc_pc = "scanning"
    /\ sc_stack # <<>>
    /\ Innermost.pc = "enter"
    /\ IF Innermost.depth > sc_max_depth \/ Innermost.kind # "dir"
       THEN /\ sc_stack' = Return
            /\ UNCHANGED <<sc_projects, sc_entries, sc_inspected>>
       ELSE /\ sc_inspected' = sc_inspected \cup {Innermost.path}
            /\ \E content \in ScanContents :
                IF detect_project(content).found
                THEN /\ sc_projects' = Append(sc_projects, Innermost.path)
                     /\ sc_stack' = Return
                     /\ UNCHANGED sc_entries
                ELSE /\ UNCHANGED sc_projects
                     /\ \/ \E listing \in Listings :
                            /\ sc_stack' = [sc_stack EXCEPT ![Len(sc_stack)] =
                                              [@ EXCEPT !.pc = "loop", !.todo = listed(listing)]]
                            /\ sc_entries' = sc_entries \cup
                                  {[path |-> Append(Innermost.path, e.name), kind |-> e.kind]
                                      : e \in Range(listed(listing))}
                        \/ /\ sc_stack' = Return
                           /\ UNCHANGED sc_entries
    /\ UNCHANGED <<sc_pc, sc_max_depth>>
    /\ SCFrame

\* for sub_path in path.iterdir(): the next entry, or the end of the loop
ScanLoop ==
    /\ sc_pc = "scanning"
    /\ sc_stack # <<>>
    /\ Innermost.pc = "loop"
    /\ IF Innermost.todo = <<>>
       THEN sc_stack' = Return
       ELSE LET e == Head(Innermost.todo)
                rest == [sc_stack EXCEPT ![Len(sc_stack)] = [@ EXCEPT !.todo = Tail(@)]]
            IN sc_stack' = IF should_descend(e.kind, e.name)
                           THEN Append(rest, Frame(Append(Innermost.path, e.name),
                                                   Innermost.depth + 1, e.kind))
                           ELSE rest
    /\ UNCHANGED <<sc_pc, sc_max_depth, sc_projects, sc_entries, sc_inspected>>
    /\ SCFrame

\* return projects
ScanReturns ==
    /\ sc_pc = "scanning"
    /\ sc_stack = <<>>
    /\ sc_pc' = "returned"
    /\ UNCHANGED <<sc_max_depth, sc_stack, sc_projects, sc_entries, sc_inspected>>
    /\ SCFrame

(***************************************************************************)
(* Specifications                                                          *)
(***************************************************************************)
\* the port-polling loop
Init == PMInit /\ PDIdle /\ EHIdle /\ ESInit /\ PCInit /\ OCIdle /\ PSInit /\ HCInit /\ RMInit /\ CMIdle /\ MCPInit /\ WCIdle /\ SSIdle /\ GHInit /\ DBInit /\ ADInit /\ ARInit /\ SDInit /\ RWInit /\ TQInit /\ SCInit

Next == Poll

Spec == Init /\ [][Next]_vars

\* project detection applied to one directory
InitPD == PDInit /\ PMInit /\ EHIdle /\ ESInit /\ PCInit /\ OCIdle /\ PSInit /\ HCInit /\ RMInit /\ CMIdle /\ MCPInit /\ WCIdle /\ SSIdle /\ GHInit /\ DBInit /\ ADInit /\ ARInit /\ SDInit /\ RWInit /\ TQInit /\ SCInit

NextPD == DetectProject

SpecPD == InitPD /\ [][NextPD]_vars

\* a decorated function, its handler and the global handler
InitEH == EHInit /\ PMInit /\ PDIdle /\ ESInit /\ PCInit /\ OCIdle /\ PSInit /\ HCInit /\ RMInit /\ CMIdle /\ MCPInit /\ WCIdle /\ SSIdle /\ GHInit /\ DBInit /\ ADInit /\ ARInit /\ SDInit /\ RWInit /\ TQInit /\ SCInit

NextEH == CallReturns \/ CallRaises \/ GetGlobalErrorHandler \/ HandleGlobalError

SpecEH == InitEH /\ [][NextEH]_vars

\* an ErrorHandler receiving errors directly
InitES == ESInit /\ PMInit /\ PDIdle /\ EHIdle /\ PCInit /\ OCIdle /\ PSInit /\ HCInit /\ RMInit /\ CMIdle /\ MCPInit /\ WCIdle /\ SSIdle /\ GHInit /\ DBInit /\ ADInit /\ ARInit /\ SDInit /\ RWInit /\ TQInit /\ SCInit

NextES == HandleError

SpecES == InitES /\ [][NextES]_vars

\* the performance cache and its clock
InitPC == PCInit /\ PMInit /\ PDIdle /\ EHIdle /\ ESInit /\ OCIdle /\ PSInit /\ HCInit /\ RMInit /\ CMIdle /\ MCPInit /\ WCIdle /\ SSIdle /\ GHInit /\ DBInit /\ ADInit /\ ARInit /\ SDInit /\ RWInit /\ TQInit /\ SCInit

NextPC == CacheGet \/ CacheSet \/ CacheClearExpired \/ Tick

SpecPC == InitPC /\ [][NextPC]_vars

\* one call of optimize_concurrent_screenshots
InitOC == OCInit /\ PMInit /\ PDIdle /\ EHIdle /\ ESInit /\ PCInit /\ PSInit /\ HCInit /\ RMInit /\ CMIdle /\ MCPInit /\ WCIdle /\ SSIdle /\ GHInit /\ DBInit /\ ADInit /\ ARInit /\ SDInit /\ RWInit /\ TQInit /\ SCInit

NextOC == TaskAcquires \/ TaskCompletes \/ GatherReturns

SpecOC == InitOC /\ [][NextOC]_vars

\* a performance monitor, its loop and its summary
InitPS == PSInit /\ PMInit /\ PDIdle /\ EHIdle /\ ESInit /\ PCInit /\ OCIdle /\ HCInit /\ RMInit /\ CMIdle /\ MCPInit /\ WCIdle /\ SSIdle /\ GHInit /\ DBInit /\ ADInit /\ ARInit /\ SDInit /\ RWInit /\ TQInit /\ SCInit

NextPS ==
    \/ StartMonitoring
    \/ StopMonitoring
    \/ MonitoringLoop
    \/ MonitoringLoopError
    \/ RecordExecutionTime
    \/ GetPerformanceSummary

SpecPS == InitPS /\ [][NextPS]_vars

\* the health checkers of the registered components
InitHC == HCInit /\ PMInit /\ PDIdle /\ EHIdle /\ ESInit /\ PCInit /\ OCIdle /\ PSInit /\ RMInit /\ CMIdle /\ MCPInit /\ WCIdle /\ SSIdle /\ GHInit /\ DBInit /\ ADInit /\ ARInit /\ SDInit /\ RWInit /\ TQInit /\ SCInit

NextHC == PerformCheck

SpecHC == InitHC /\ [][NextHC]_vars

\* a reliability manager, its checkers and its monitoring loop
InitRM ==
    RMInit /\ HCInit /\ PMInit /\ PDIdle /\ EHIdle /\ ESInit /\ PCInit /\ OCIdle /\ PSInit /\ CMIdle /\ MCPInit /\ WCIdle /\ SSIdle /\ GHInit /\ DBInit /\ ADInit /\ ARInit /\ SDInit /\ RWInit /\ TQInit /\ SCInit

NextRM ==
    \/ RegisterComponent
    \/ AddGracefulShutdownHandler
    \/ Start
    \/ StartWhileRunning
    \/ StopWhileStopped
    \/ Stop
    \/ ShutdownHandler
    \/ ShutdownStopMonitoring
    \/ ShutdownStopChecker
    \/ ShutdownSave
    \/ CheckLoop
    \/ ManagerMonitoringLoop

SpecRM == InitRM /\ [][NextRM]_vars

\* a code change monitor used directly
InitCM ==
    CMInit /\ PMInit /\ PDIdle /\ EHIdle /\ ESInit /\ PCInit /\ OCIdle /\ PSInit /\ HCInit /\ RMInit /\ WCIdle /\ SSIdle /\ GHInit /\ DBInit /\ ADInit /\ ARInit /\ SDInit /\ RWInit /\ TQInit /\ SCInit
    /\ MCPInit

NextCM ==
    \/ CMStartMonitoring
    \/ AddProjectWatch
    \/ RemoveProjectWatch
    \/ HandleChangeEvent
    \/ ProcessPendingChanges
    \/ CMStopMonitoring
    \/ GetStatus

SpecCM == InitCM /\ [][NextCM]_vars

\* the MCP server answering requests
InitMCP ==
    MCPInit /\ CMInit /\ PMInit /\ PDIdle /\ EHIdle /\ ESInit /\ PCInit /\ OCIdle /\ PSInit /\ WCIdle /\ SSIdle /\ GHInit /\ DBInit /\ ADInit /\ ARInit /\ SDInit /\ RWInit /\ TQInit /\ SCInit
    /\ HCInit /\ RMInit

NextMCP ==
    \/ RequestAutoScreenshot
    \/ RequestTakeScreenshot
    \/ RequestDetectProject
    \/ RequestGenerateConfig
    \/ RequestGetStatus
    \/ RequestStartCodeMonitoring
    \/ RequestStopCodeMonitoring
    \/ RequestGetMonitoringStatus
    \/ RequestUnknownTool

SpecMCP == InitMCP /\ [][NextMCP]_vars

\* a web app monitor constructed from a config file and run
InitWC ==
    WCInit /\ PMInit /\ PDIdle /\ EHIdle /\ ESInit /\ PCInit /\ OCIdle /\ PSInit /\ HCInit /\ SSIdle /\ GHInit /\ DBInit /\ ADInit /\ ARInit /\ SDInit /\ RWInit /\ TQInit /\ SCInit
    /\ RMInit /\ CMIdle /\ MCPInit

NextWC == Construct \/ RunStarts \/ RunRound

SpecWC == InitWC /\ [][NextWC]_vars

\* the screenshot server script being run
InitSS ==
    SSInit /\ PMInit /\ PDIdle /\ EHIdle /\ ESInit /\ PCInit /\ OCIdle /\ PSInit /\ HCInit /\ GHInit /\ DBInit /\ ADInit /\ ARInit /\ SDInit /\ RWInit /\ TQInit /\ SCInit
    /\ RMInit /\ CMIdle /\ MCPInit /\ WCIdle

NextSS ==
    \/ ImportMcp
    \/ CreateServer
    \/ DefineListTools
    \/ DefineCallTool
    \/ Main
    \/ CallTool

SpecSS == InitSS /\ [][NextSS]_vars

\* threads calling get_global_error_handler
InitGH == GHInit /\ PMInit /\ PDIdle /\ EHIdle /\ ESInit /\ PCInit /\ OCIdle /\ PSInit /\ HCInit /\ RMInit /\ CMIdle /\ MCPInit /\ WCIdle /\ SSIdle /\ DBInit /\ ADInit /\ ARInit /\ SDInit /\ RWInit /\ TQInit /\ SCInit

NextGH == TestStep \/ ConstructStep \/ StoreStep \/ ReturnStep

SpecGH == InitGH /\ [][NextGH]_vars

\* the event thread and the debounce timers of one watched project
InitDB == DBInit /\ PMInit /\ PDIdle /\ EHIdle /\ ESInit /\ PCInit /\ OCIdle /\ PSInit /\ HCInit /\ RMInit /\ CMIdle /\ MCPInit /\ WCIdle /\ SSIdle /\ GHInit /\ ADInit /\ ARInit /\ SDInit /\ RWInit /\ TQInit /\ SCInit

NextDB ==
    \/ DBTick
    \/ EventArrives
    \/ EventAppended
    \/ SetupDebounceTimer
    \/ TimerFires
    \/ ClearPending
    \/ ProcessBatch

SpecDB == InitDB /\ [][NextDB]_vars

\* the handling of detected apps; the handler's thread keeps running
InitAD == ADInit /\ PMInit /\ PDIdle /\ EHIdle /\ ESInit /\ PCInit /\ OCIdle /\ PSInit /\ HCInit /\ RMInit /\ CMIdle /\ MCPInit /\ WCIdle /\ SSIdle /\ GHInit /\ DBInit /\ ARInit /\ SDInit /\ RWInit /\ TQInit /\ SCInit

NextAD ==
    \/ AppDetected
    \/ WaitRequest
    \/ WaitSleep
    \/ WaitTimeout
    \/ CaptureScreenshots
    \/ SaveDetectionLog

SpecAD == InitAD /\ [][NextAD]_vars /\ WF_vars(NextAD)

\* the recovery of one component by the monitoring loop
InitAR == ARInit /\ PMInit /\ PDIdle /\ EHIdle /\ ESInit /\ PCInit /\ OCIdle /\ PSInit /\ HCInit /\ RMInit /\ CMIdle /\ MCPInit /\ WCIdle /\ SSIdle /\ GHInit /\ DBInit /\ ADInit /\ SDInit /\ RWInit /\ TQInit /\ SCInit

NextAR ==
    \/ ARTick
    \/ RegisterRecoveryStrategy
    \/ ARPerformCheck
    \/ MonitoringRound
    \/ RecoveryReturns

SpecAR == InitAR /\ [][NextAR]_vars

\* graceful_shutdown called by stop() and by the signal handler's task
InitSD == SDInit /\ PMInit /\ PDIdle /\ EHIdle /\ ESInit /\ PCInit /\ OCIdle /\ PSInit /\ HCInit /\ RMInit /\ CMIdle /\ MCPInit /\ WCIdle /\ SSIdle /\ GHInit /\ DBInit /\ ADInit /\ ARInit /\ RWInit /\ TQInit /\ SCInit

NextSD ==
    \/ SDAddHandler
    \/ SDRegisterComponent
    \/ SDStart
    \/ SDEnter
    \/ SDHandler
    \/ SDStopMonitoring
    \/ SDStopChecker
    \/ SDSave

SpecSD == InitSD /\ [][NextSD]_vars

\* remove_project_watch against the debounce-timer thread
InitRW == RWInit /\ PMInit /\ PDIdle /\ EHIdle /\ ESInit /\ PCInit /\ OCIdle /\ PSInit /\ HCInit /\ RMInit /\ CMIdle /\ MCPInit /\ WCIdle /\ SSIdle /\ GHInit /\ DBInit /\ ADInit /\ ARInit /\ SDInit /\ TQInit /\ SCInit

NextRW ==
    \/ RWAddProjectWatch
    \/ RWHandleChangeEvent
    \/ RemoveObserver
    \/ RemoveConfig
    \/ RemovePending
    \/ RemoveTimer
    \/ RWTimerFires
    \/ TimerTestsPending
    \/ TimerReadsPending
    \/ TimerClearsPending
    \/ TimerGetsConfig
    \/ TimerTakesScreenshot

SpecRW == InitRW /\ [][NextRW]_vars

\* the task queue; the event loop runs every coroutine that can go on
InitTQ == TQInit /\ PMInit /\ PDIdle /\ EHIdle /\ ESInit /\ PCInit /\ OCIdle /\ PSInit /\ HCInit /\ RMInit /\ CMIdle /\ MCPInit /\ WCIdle /\ SSIdle /\ GHInit /\ DBInit /\ ADInit /\ ARInit /\ SDInit /\ RWInit /\ SCInit

NextTQ ==
    \/ TQStart
    \/ TQStop
    \/ TQSubmit
    \/ TQProcessorStarts
    \/ TQProcessQueue
    \/ TQAcquire
    \/ TQExecuteTask

SpecTQ ==
    /\ InitTQ
    /\ [][NextTQ]_vars
    /\ WF_vars(TQProcessorStarts)
    /\ WF_vars(TQProcessQueue)
    /\ WF_vars(TQAcquire)
    /\ WF_vars(TQExecuteTask)

\* one call of scan_directory, which runs on when it can
InitSC == SCInit /\ PMInit /\ PDIdle /\ EHIdle /\ ESInit /\ PCInit /\ OCIdle /\ PSInit /\ HCInit /\ RMInit /\ CMIdle /\ MCPInit /\ WCIdle /\ SSIdle /\ GHInit /\ DBInit /\ ADInit /\ ARInit /\ SDInit /\ RWInit /\ TQInit

NextSC ==
    \/ ScanDirectory
    \/ ScanRecursive
    \/ ScanLoop
    \/ ScanReturns

SpecSC == InitSC /\ [][NextSC]_vars /\ WF_vars(NextSC)

(***************************************************************************)
(* Claims: port polling                                                    *)
(***************************************************************************)
\* the ports the last poll saw active
ActiveNow == {p \in PortSet : current_ports[p]}

\* a poll reports p exactly when p is active in that poll and was not in
\* active_apps when the poll began, and reports no port twice
ReportedIffNewlyActive ==
    /\ \A p \in PortSet :
          (p \in Range(new_apps')) <=> (current_ports'[p] /\ p \notin DOMAIN active_apps)
    /\ Len(new_apps') = Cardinality(Range(new_apps'))

\* a port seen inactive by an earlier poll and active by this one is reported again
ReportedAgain ==
    \A p \in PortSet :
        (polls > 0 /\ ~current_ports[p] /\ current_ports'[p]) => p \in Range(new_apps')

\* after every poll active_apps holds exactly the ports that poll saw active,
\* and each of them was reported exactly once since it was last seen inactive
TrackedIffActive ==
    /\ DOMAIN active_apps = ActiveNow
    /\ \A p \in PortSet : streak_reports[p] = (IF current_ports[p] THEN 1 ELSE 0)

\* C1: detect_new_apps reports port p in a poll if and only if p is active in
\* that poll and not in active_apps at that moment; a port that stays active
\* over consecutive polls is reported exactly once, a port observed inactive is
\* removed from active_apps, and a port observed inactive and later active
\* again is reported again.
C1_DetectNewApps ==
    /\ []TrackedIffActive
    /\ [][ReportedIffNewlyActive /\ ReportedAgain]_vars

\* a port that stayed active over a later poll without being reported again,
\* next to a port that the same poll reported
C1_Witness ==
    /\ polls = MaxPolls
    /\ \E p \in PortSet : current_ports[p] /\ p \notin Range(new_apps) /\ streak_reports[p] = 1
    /\ \E q \in PortSet : q \in Range(new_apps)
    /\ \E r \in PortSet : ~current_ports[r]

(***************************************************************************)
(* Claims: project detection                                               *)
(***************************************************************************)
Confidence(fw) == calculate_framework_confidence(project, fw)

IndexOf(fw) == CHOOSE i \in 1..Len(FrameworkOrder) : FrameworkOrder[i] = fw

\* some framework of the table scores strictly above 0.3
SomeAboveThreshold == \E fw \in Frameworks : 10 * Confidence(fw) > 3 * ConfUnit

\* C2: detect_project returns None when the path does not exist, is not a
\* directory, or no framework scores a confidence strictly above 0.3;
\* otherwise it returns the framework with the highest confidence, the
\* earliest in table order on a tie, with a confidence in (0.3, 1.0].
C2_DetectProject ==
    pd_pc = "done" =>
        IF project.kind # "dir" \/ ~SomeAboveThreshold
        THEN ~project_info.found
        ELSE /\ project_info.found
             /\ project_info.framework \in Frameworks
             /\ project_info.confidence = Confidence(project_info.framework)
             /\ \A fw \in Frameworks :
                   /\ Confidence(fw) <= project_info.confidence
                   /\ IndexOf(fw) < IndexOf(project_info.framework)
                        => Confidence(fw) < project_info.confidence
             /\ 10 * project_info.confidence > 3 * ConfUnit
             /\ project_info.confidence <= ConfUnit

\* a detection decided by the tie rule: a later framework of the table
\* reaches the same confidence as the returned one
C2_Witness ==
    /\ pd_pc = "done"
    /\ project_info.found
    /\ \E fw \in Frameworks :
          /\ IndexOf(fw) > IndexOf(project_info.framework)
          /\ Confidence(fw) = project_info.confidence

\* C3: for a directory whose package.json lists react (alone or together
\* with vite) and not next, detection succeeds and reports React.
C3_ReactDetected ==
    (/\ pd_pc = "done"
     /\ project.kind = "dir"
     /\ project.files = {"package.json"}
     /\ project.pkg_readable
     /\ project.deps \in {{"react"}, {"react", "vite"}})
    => (project_info.found /\ project_info.framework = "React")

(***************************************************************************)
(* Claims: error handling                                                  *)
(***************************************************************************)
\* number of errors a handler holds (0 for a handler not created yet)
Held(h) == Len(h.error_log)

\* a step that is one call of the decorated function
IsCall == calls' = calls + 1

\* the body of the decorated function raised in that call
BodyRaised == call_count' <= decoration.failures

\* C4: when a decorated function (synchronous or asynchronous) raises, the
\* error is recorded once by an error handler and the original exception
\* propagates unchanged to the caller; only when return_on_error is not None
\* is that value returned instead and no exception raised.
C4_Call ==
    IsCall =>
      IF BodyRaised
      THEN /\ Held(wrapper_handler') + Held(global_handler')
                = Held(wrapper_handler) + Held(global_handler) + 1
           /\ LET log == wrapper_handler'.error_log
              IN /\ Len(log) = Held(wrapper_handler) + 1
                 /\ log[Len(log)].message = decoration.exc
                 /\ log[Len(log)].category = decoration.category
                 /\ log[Len(log)].severity = decoration.severity
           /\ IF decoration.return_on_error = "None"
              THEN last_call'.kind = "raised" /\ last_call'.value = decoration.exc
              ELSE last_call'.kind = "returned"
                   /\ last_call'.value = decoration.return_on_error
      ELSE /\ last_call'.kind = "returned" /\ last_call'.value = "ok"
           /\ wrapper_handler' = wrapper_handler
           /\ global_handler' = global_handler

C4_HandleErrors == [][C4_Call]_vars

\* an asynchronous function raised, the error was recorded and propagated
C4_Witness ==
    /\ decoration.is_async
    /\ decoration.return_on_error = "None"
    /\ last_call.kind = "raised"
    /\ last_call.value = decoration.exc
    /\ Held(wrapper_handler) = 1

\* C5: every error raised inside a decorated function is recorded in the
\* global error handler: after each such failure the global handler holds
\* strictly more errors than before.
C5_GlobalRecords ==
    [][(IsCall /\ BodyRaised) => Held(global_handler') > Held(global_handler)]_vars

\* C6: a function decorated with handle_errors(auto_retry=True, max_retries=n)
\* that fails on its first invocation and succeeds on the next is invoked
\* again by the decorator; the caller receives the successful return value
\* and the function has been called exactly twice.
C6_RetriedCall ==
    /\ (decoration.auto_retry /\ decoration.max_retries_keyword)
          => wrapper_status = "decorated"
    /\ (decoration.auto_retry /\ decoration.failures = 1 /\ calls = 1)
          => (last_call.kind = "returned" /\ last_call.value = "ok" /\ call_count = 2)

RECURSIVE SumOver(_, _)
SumOver(f, S) ==
    IF S = {} THEN 0
    ELSE LET x == CHOOSE y \in S : TRUE IN f[x] + SumOver(f, S \ {x})

\* the counter error_metrics keeps under key k (0 when the key is absent)
Metric(h, k) == IF k \in DOMAIN h.error_metrics THEN h.error_metrics[k] ELSE 0

StatisticsMatch(h, hist) ==
    LET stats == get_error_statistics(h)
    IN /\ stats.total_errors = hist.errors
       /\ stats.resolved_errors = hist.resolved
       /\ \A c \in ErrorCategory : stats.error_categories[c] = Metric(h, <<"total", c>>)
       /\ \A v \in ErrorSeverity :
             stats.severity_distribution[v]
                = SumOver([c \in ErrorCategory |-> Metric(h, <<c, v>>)], ErrorCategory)
       /\ SumOver(stats.error_categories, ErrorCategory) = stats.total_errors
       /\ SumOver(stats.severity_distribution, ErrorSeverity) = stats.total_errors

GotKey(k) == cache_op.op = "get" /\ cache_op.key = k

WasStored(k) == stored[k] # NeverStored

\* the most recent set of k is at most ttl_seconds old
WithinTTL(k) == WasStored(k) /\ now - stored[k].at <= ttl_seconds

\* C8: a get of a key made before the TTL of its latest set has elapsed
\* returns the value of that set, however many other keys were stored in
\* between; a get of a key that was never stored returns None.
C8_GetReturnsStored ==
    \A k \in Keys :
        GotKey(k) =>
            /\ WithinTTL(k) => cache_op.result = stored[k].value
            /\ ~WasStored(k) => cache_op.result = "None"

\* a get never returns anything but the latest value stored under the key,
\* and never after ttl_seconds have passed since it was stored
NoExpiredValue ==
    \A k \in Keys :
        GotKey(k) /\ cache_op.result # "None" =>
            /\ WithinTTL(k)
            /\ cache_op.result = stored[k].value

\* a get of a key whose entry is older than the TTL returns None and removes
\* the entry from all three dictionaries
ExpiredGetRemoves ==
    \A k \in Keys :
        (/\ k \in DOMAIN perf_cache.cache
         /\ now - perf_cache.timestamps[k] > ttl_seconds
         /\ cache_op'.op = "get" /\ cache_op'.key = k
         /\ now' = now /\ stored' = stored
         /\ perf_cache' # perf_cache)
        => /\ cache_op'.result = "None"
           /\ k \notin DOMAIN perf_cache'.cache
           /\ k \notin DOMAIN perf_cache'.timestamps
           /\ k \notin DOMAIN perf_cache'.access_counts
           /\ \A j \in DOMAIN perf_cache.cache \ {k} :
                 /\ j \in DOMAIN perf_cache'.cache
                 /\ perf_cache'.cache[j] = perf_cache.cache[j]

\* C9: a get of a key whose entry is older than the TTL returns None and
\* removes the entry, and no later get returns the expired value unless the
\* key is stored again.
C9_ExpiredGet == []NoExpiredValue /\ [][ExpiredGetRemoves]_vars

\* an entry stored and left to expire was asked for: the get returned None and
\* the entry is gone
C9_Witness ==
    \E k \in Keys :
        /\ GotKey(k)
        /\ WasStored(k)
        /\ now - stored[k].at > ttl_seconds
        /\ cache_op.result = "None"
        /\ k \notin DOMAIN perf_cache.cache

\* C10: the list returned has exactly one entry per submitted task, entry i
\* being the result of task i or, in its place, the exception task i raised,
\* for every number of tasks and every concurrency limit.
C10_OneEntryPerTask ==
    oc_pc = "returned" =>
        /\ Len(gather_results) = Len(screenshot_tasks)
        /\ \A i \in 1..Len(screenshot_tasks) :
              /\ gather_results[i].task = i
              /\ gather_results[i].kind = "result" <=> screenshot_tasks[i] = "returns"
              /\ gather_results[i].kind = "exception" <=> screenshot_tasks[i] = "raises"

\* three tasks ran two at a time, the second raised and was the first to
\* complete, the first completed last: the list is returned in task order
C10_Witness ==
    /\ oc_pc = "returned"
    /\ Len(screenshot_tasks) = 3
    /\ max_concurrent = 2
    /\ screenshot_tasks[2] = "raises"
    /\ screenshot_tasks[1] = "returns"
    /\ finished = <<2, 3, 1>>
    /\ gather_results[2].kind = "exception"

(***************************************************************************)
(* Claims: performance summary                                             *)
(***************************************************************************)
SummaryKeys == {"status", "resource_usage", "execution_times", "cache_stats",
                "task_queue_stats", "metrics_count", "thresholds"}

\* C11: in every state of the monitor from its creation onward,
\* get_performance_summary returns a record with the keys status,
\* resource_usage, execution_times, cache_stats, task_queue_stats,
\* metrics_count and thresholds.
C11_SummaryKeys ==
    summary.called => SummaryKeys \subseteq DOMAIN summary

(***************************************************************************)
(* Claims: health checks                                                   *)
(***************************************************************************)
\* C12: when a component's check succeeds after any number of failures, its
\* status is HEALTHY and its failure_count 0 at that very check, whatever
\* status it had reached: FAILED is not absorbing.
C12_RecoversOnSuccess ==
    \A c \in Components :
        (last_check.component = c /\ last_check.outcome = "true")
            => (health[c].status = "healthy" /\ health[c].failure_count = 0)

\* a component that had failed three times or more is healthy again after a
\* successful check
C12_Witness ==
    \E c \in Components :
        /\ last_check = [component |-> c, outcome |-> "true"]
        /\ {"degraded", "unhealthy", "failed"} \subseteq reached[c]
        /\ health[c] = [status |-> "healthy", failure_count |-> 0]

(***************************************************************************)
(* Claims: reliability manager                                             *)
(***************************************************************************)
\* when start has returned, and until the next call, the manager runs and so
\* does the checker of each component registered before
StartedAll ==
    (rm_op.op = "start" /\ shutdown = NoShutdown) =>
        /\ rm_running
        /\ monitoring_task = "running"
        /\ \A c \in Range(health_checkers) : checker_running[c]

\* when stop has returned, nothing runs any more and the state has been saved
\* since the manager was started
StoppedAll ==
    rm_op.op = "stop" =>
        /\ ~rm_running
        /\ monitoring_task # "running"
        /\ save_task # "running"
        /\ \A c \in Components : ~checker_running[c]
        /\ unsaved_starts = 0

\* after stop has returned no check is performed until the next call
NoCheckAfterStop ==
    (rm_op.op = "stop" /\ rm_op' = rm_op) => health' = health

\* start while running and stop while not running change nothing
NoEffectCalls ==
    (rm_op'.op \in {"start_while_running", "stop_while_stopped"})
        => UNCHANGED <<rm_running, health_checkers, checker_running, monitoring_task,
                       save_task, component_states, shutdown_handlers, shutdown,
                       unsaved_starts, health>>
           \/ rm_op' = rm_op

\* C13: after start completes, running is True and the checker of every
\* component registered before is running; after stop completes, running is
\* False, the monitoring task and every checker are stopped and the state has
\* been saved; start while running and stop while not running change nothing.
C13_StartStop ==
    /\ [](StartedAll /\ StoppedAll)
    /\ [][NoCheckAfterStop /\ NoEffectCalls]_vars

\* a manager with two components and a shutdown handler was stopped in its
\* second round (the save task of the first round is still the cancelled
\* one), after checks and a monitoring round had run
C13_Witness ==
    /\ rm_op.op = "stop"
    /\ save_task = "cancelled"
    /\ component_states # {}
    /\ Len(health_checkers) >= 2
    /\ shutdown_handlers >= 1
    /\ \E c \in Range(health_checkers) : health[c].status # "unknown"

(***************************************************************************)
(* Claims: code change monitor                                             *)
(***************************************************************************)
\* C15: when stop_monitoring has returned, get_status reports running False
\* and no watched project, and no debounce timer is still to run, whatever
\* calls and change events came before.
C15_StopCleansUp ==
    cm_op.op = "stop_monitoring" =>
        LET status == get_status(Monitor, WATCHDOG_AVAILABLE)
        IN  /\ status.running = FALSE
            /\ status.watched_projects = 0
            /\ \A k \in ProjectKeys : started_timers[k] = 0

(***************************************************************************)
(* Claims: MCP tools                                                       *)
(***************************************************************************)
\* C14: every tool handler returns a dictionary with a boolean success and
\* lets no exception reach its caller; when a step of the request failed,
\* success is False and the dictionary carries an error or a message text.
C14_HandlersReturn ==
    invoked # {} =>
        /\ ~response.raised
        /\ response.has_success
        /\ response.success \in BOOLEAN
        /\ failure # "none" =>
               /\ response.success = FALSE
               /\ response.error # "" \/ response.message # ""

\* a start request with an unusable path: the exception of add_project_watch
\* was turned into a failure record, the monitor having been created
C14_Witness ==
    /\ invoked = {"handle_start_code_monitoring"}
    /\ failure = "Path"
    /\ response.raised = FALSE
    /\ response.success = FALSE
    /\ response.error = "str(e)"
    /\ code_monitor

\* C16: get_monitoring_status reports inactive and 0 projects until the
\* first start_code_monitoring request, and afterwards active with as many
\* projects as distinct resolved paths were started successfully and not
\* stopped since; stop_code_monitoring before any start gives success False.
C16_MonitoringStatus ==
    /\ last_request.tool_name = "get_monitoring_status" =>
           /\ response.status.present
           /\ IF start_called
              THEN /\ response.status.monitoring_active
                   /\ response.status.watched_projects = Cardinality(watched_ok)
              ELSE /\ ~response.status.monitoring_active
                   /\ response.status.watched_projects = 0
    /\ (last_request.tool_name = "stop_code_monitoring" /\ ~start_called) =>
           response.success = FALSE

RegisteredTools ==
    {"auto_screenshot_on_create", "take_screenshot", "detect_project",
     "generate_config", "get_status"}

\* C19: the five tools are registered after construction; a request for a
\* registered name runs the handler registered under that name and no
\* other, no two names sharing a handler; a request for any other name is
\* answered with an error record and runs no handler.
C19_Dispatch ==
    /\ RegisteredTools \subseteq DOMAIN tools
    /\ \A a, b \in DOMAIN tools : tools[a] = tools[b] => a = b
    /\ last_request.tool_name \in DOMAIN tools =>
           invoked = {tools[last_request.tool_name]}
    /\ last_request.tool_name \notin DOMAIN tools \cup {"none"} =>
           /\ invoked = {}
           /\ response.error # ""
           /\ ~response.has_success
           /\ ~response.raised

\* an unknown name asked of a server whose monitoring tools were used before
C19_Witness ==
    /\ last_request.tool_name = "list_tools"
    /\ invoked = {}
    /\ response = NotFound
    /\ code_monitor
    /\ observers # {}

(***************************************************************************)
(* Claims: web app monitor configuration                                   *)
(***************************************************************************)
\* the additional and excluded ports the config file asks for
FileAdditional ==
    IF config_file.kind = "object" /\ "additional_ports" \in DOMAIN config_file.loaded
    THEN Range(config_file.loaded.additional_ports)
    ELSE {}

FileExcluded ==
    IF config_file.kind = "object" /\ "exclude_ports" \in DOMAIN config_file.loaded
    THEN config_file.loaded.exclude_ports
    ELSE {}

ExpectedPorts == (Range(DEFAULT_PORTS) \cup FileAdditional) \ FileExcluded

\* C17: with a missing or unparsable config file the monitor has the
\* built-in default configuration; the ports run polls are exactly the
\* default ports plus additional_ports minus exclude_ports, and an excluded
\* port is never polled and never detected.
C17_ConfigPorts ==
    /\ (wm_pc # "new" /\ config_file.kind # "object") =>
           /\ wm_config = default_config
           /\ monitored_ports = DEFAULT_PORTS
    /\ wm_pc = "running" => Range(port_monitor.ports) = ExpectedPorts
    /\ polled # {} => polled = ExpectedPorts
    /\ polled \cap FileExcluded = {}
    /\ detected_apps \cap FileExcluded = {}
    /\ detected_apps \subseteq ExpectedPorts

\* the file adds port 3333 and excludes 3000; 3333 was detected and 3000,
\* although a default port, was not polled
C17_Witness ==
    /\ wm_pc = "running"
    /\ ExtraPort \in FileAdditional
    /\ DEFAULT_PORTS[1] \in FileExcluded
    /\ ExtraPort \in detected_apps
    /\ DEFAULT_PORTS[2] \in polled
    /\ DEFAULT_PORTS[1] \notin polled

(***************************************************************************)
(* Claims: screenshot server start-up                                      *)
(***************************************************************************)
\* C18: when the mcp package cannot be imported the script still starts: it
\* reports standalone mode, no start-up statement fails, and main enters
\* the standalone command loop, not the stdio server.
C18_StandaloneStarts ==
    (~mcp_installed /\ ss_pc # "import") =>
        /\ "standalone mode" \in stderr_lines
        /\ ss_pc # "NameError"
        /\ ss_mode # "stdio"
        /\ ss_pc = "serving" => ss_mode = "standalone"

(***************************************************************************)
(* Claims: the global error handler                                        *)
(***************************************************************************)
\* C20: every call of get_global_error_handler returns the same ErrorHandler
\* and at most one is ever constructed, whatever the order in which the
\* callers' steps interleave.
C20_OneGlobalHandler ==
    /\ instances <= 1
    /\ Cardinality(gh_returned) <= 1

(***************************************************************************)
(* Claims: debouncing of change events                                     *)
(***************************************************************************)
\* the batches an event is contained in
BatchesOf(e) == {b \in 1..Len(batches) : \E k \in 1..Len(batches[b].events) :
                                            batches[b].events[k] = e}

\* neither thread is inside a function and no timer is still to run
Quiescent ==
    /\ ev_pc = "idle"
    /\ \A i \in 1..Len(timers) : timers[i].state \in {"cancelled", "done"}

\* C21: change events are debounced: no processed batch is empty, a batch is
\* processed no earlier than debounce_seconds after the last event it holds,
\* no accepted event is in two batches, and once both threads are at rest
\* every accepted event is in exactly one processed batch.
C21_Debounced ==
    /\ \A b \in 1..Len(batches) :
        /\ batches[b].events # <<>>
        /\ \A k \in 1..Len(batches[b].events) :
            batches[b].at >= arrivals[batches[b].events[k]] + debounce_seconds
    /\ \A e \in 1..Len(arrivals) : Cardinality(BatchesOf(e)) <= 1
    /\ Quiescent => \A e \in 1..Len(arrivals) : Cardinality(BatchesOf(e)) = 1

(***************************************************************************)
(* Claims: handling of a detected app                                      *)
(***************************************************************************)
\* the steps of one detection come in the order ready, capture, log, and a
\* detection that timed out did nothing else
InOrder(t) ==
    /\ \A k \in 1..Len(t) :
        /\ t[k] = "ready" => k = 1
        /\ t[k] = "capture" => k = 2 /\ t[1] = "ready"
        /\ t[k] = "log" => k = 3 /\ t[2] = "capture"
        /\ t[k] = "timeout" => t = <<"timeout">>

Waiting == ad_pc \in {"wait", "sleep"}

\* C22: a detection captures and logs only after wait_for_app_ready saw a
\* response with a status below 500, in the order ready, capture, log; the
\* wait always ends, and when it ends without such a response the detection
\* ends with neither a capture nor a log entry.
C22_ReadyCaptureLog ==
    /\ [](\A t \in ad_finished \cup {ad_trace} : InOrder(t))
    /\ [](ad_trace # <<>> /\ ad_trace[1] = "ready" =>
            ad_status.kind = "response" /\ ad_status.status_code < 500)
    /\ [](~Waiting /\ ad_status.kind # "none" /\ ~is_ready(ad_status) =>
            ad_trace = <<"timeout">>)
    /\ (Waiting ~> ~Waiting)

\* one detection went through ready, capture and log, and another timed out
C22_Witness ==
    /\ <<"ready", "capture", "log">> \in ad_finished
    /\ <<"timeout">> \in ad_finished

\* the basic capture was called during the last capture_screenshots
BasicTaken == \E k \in 1..Len(last_capture.calls) : last_capture.calls[k] = "basic"

\* C27: capture_screenshots takes the basic fallback when the Playwright
\* check fails, the capture module cannot be imported, the Playwright
\* capture gives no result or the Playwright path raises; when the
\* Playwright capture gives a result the fallback is not taken.
C27_BasicFallback ==
    last_capture.called =>
        LET env == last_capture.env IN
        /\ (env.check # "rc0" \/ env.import # "ok" \/ env.sync # "result") => BasicTaken
        /\ (env.check = "rc0" /\ env.import = "ok" /\ env.sync = "result") =>
                last_capture.calls = <<"playwright">>

\* the Playwright capture ran and gave nothing, and the basic capture followed
C27_Witness ==
    /\ last_capture.called
    /\ last_capture.env.sync = "None"
    /\ last_capture.calls = <<"playwright", "basic">>

(***************************************************************************)
(* Claims: the screenshot workflow's result                                *)
(***************************************************************************)
\* C23: when the screenshot workflow returns success, every path in its
\* screenshots list is a file a capture step produced: a viewport whose
\* browser capture reported success, or the basic file after the capture
\* script ran and exited with code 0.
C23_ScreenshotsProduced ==
    (last_request.workflow.ran /\ last_request.workflow.success) =>
        last_request.workflow.screenshots \subseteq last_request.workflow.produced

(***************************************************************************)
(* Claims: detection without framework evidence                            *)
(***************************************************************************)
\* C24: for a directory that holds package.json and no other file of the
\* framework table, and whose package.json lists none of the table's
\* dependencies, detect_project returns None.
C24_NoEvidenceNoFramework ==
    (/\ pd_pc = "done"
     /\ project.kind = "dir"
     /\ project.files = {"package.json"}
     /\ project.deps \cap DepUniverse = {})
    => ~project_info.found

(***************************************************************************)
(* Claims: the limit of optimize_concurrent_screenshots                    *)
(***************************************************************************)
\* the tasks that hold the semaphore
RunningTasks == {i \in DOMAIN task_state : task_state[i] = "running"}

\* the limit as stated: the requested number or the configured one, halved
\* above 70 percent CPU, otherwise a third above 80 percent memory, at least 1
StatedLimit ==
    LET base == IF oc_call.requested = 0 THEN max_concurrent_tasks ELSE oc_call.requested
        adjusted == IF oc_call.cpu_percent > 70 THEN base \div 2
                    ELSE IF oc_call.memory_percent > 80 THEN base \div 3
                    ELSE base
    IN IF adjusted < 1 THEN 1 ELSE adjusted

\* C28: optimize_concurrent_screenshots never runs more tasks at the same
\* time than its effective limit: the requested max_concurrent (or the
\* configured max_concurrent_tasks if none is given), halved when CPU usage
\* is above 70 percent, otherwise divided by three when memory usage is
\* above 80 percent, and never less than 1.
C28_WithinEffectiveLimit ==
    oc_pc # "idle" =>
        /\ Cardinality(RunningTasks) <= StatedLimit
        /\ StatedLimit >= 1

\* a call with a requested limit of 2 under high CPU usage: one task runs
\* while two others wait for the semaphore
C28_Witness ==
    /\ oc_pc = "gathering"
    /\ oc_call.requested = 2
    /\ oc_call.cpu_percent > 70
    /\ Cardinality(RunningTasks) = 1
    /\ Cardinality({i \in DOMAIN task_state : task_state[i] = "waiting"}) = 2

(***************************************************************************)
(* Claims: the status of a health check                                    *)
(***************************************************************************)
\* the status that goes with a number of consecutive failures
StatusAt(n) ==
    IF n = 0 THEN "healthy"
    ELSE IF n = 1 THEN "degraded"
    ELSE IF n = 2 THEN "unhealthy"
    ELSE "failed"

\* C26: after every check, failure_count is 0 and the status HEALTHY if the
\* check succeeded; otherwise failure_count is one more than before and the
\* status is DEGRADED at 1, UNHEALTHY at 2 and FAILED at 3 or more, a check
\* that times out or raises counting as one failure.
C26_StatusFollowsCount ==
    /\ [][\A c \in Components :
            (health'[c] # health[c] \/ last_check'.component = c) =>
                /\ health'[c].failure_count =
                      IF last_check'.outcome = "true" THEN 0
                      ELSE health[c].failure_count + 1
                /\ health'[c].status = StatusAt(health'[c].failure_count)]_hcVars
    /\ [](\A c \in Components :
            health[c] = NewHealth
            \/ health[c].status = StatusAt(health[c].failure_count))

\* a component has gone through degraded and unhealthy and is failed at its
\* third failure, which was a timeout or an exception
C26_Witness ==
    \E c \in Components :
        /\ last_check.component = c
        /\ last_check.outcome \in {"raises", "timeout"}
        /\ {"degraded", "unhealthy"} \subseteq reached[c]
        /\ health[c] = [status |-> "failed", failure_count |-> 3]

(***************************************************************************)
(* Claims: automatic recovery                                              *)
(***************************************************************************)
\* C25: a recovery strategy is invoked only for an unhealthy or failed
\* component, with no attempt made during the preceding recovery_cooldown
\* and with recovery_attempts below max_recovery_attempts; recovery_attempts
\* never exceeds max_recovery_attempts, and it returns to 0 only when a
\* recovery succeeds.
C25_RecoveryGuarded ==
    /\ [](recovery_history.n > 0 =>
            /\ recovery_history.status \in {"unhealthy", "failed"}
            /\ recovery_history.attempts < max_recovery_attempts
            /\ recovery_history.last.set =>
                  recovery_history.at - recovery_history.last.at > recovery_cooldown)
    /\ [][recovery_history'.n > 1 /\ recovery_history'.n # recovery_history.n =>
            recovery_history'.last.at = recovery_history.at]_vars
    /\ [](recovery_attempts <= max_recovery_attempts)
    /\ [][(recovery_attempts > 0 /\ recovery_attempts' = 0) =>
            (ar_pc = "recovering" /\ ar_op' = "true")]_vars

\* the strategy has been invoked max_recovery_attempts times without success
\* and a further round was refused for that reason
C25_Witness ==
    /\ recovery_history.n >= max_recovery_attempts
    /\ recovery_attempts = max_recovery_attempts
    /\ ar_op = "max_attempts"

(***************************************************************************)
(* Claims: graceful shutdown                                               *)
(***************************************************************************)
\* what a graceful_shutdown does, in order, with n handlers and c checkers
ShutdownSteps(n, c) ==
    [k \in 1..n |-> [ev |-> "handler", n |-> k]]
    \o << [ev |-> "running_false", n |-> 0], [ev |-> "cancel_monitoring", n |-> 0] >>
    \o [k \in 1..c |-> [ev |-> "stop_checker", n |-> k]]
    \o << [ev |-> "save_state", n |-> 0] >>

Done(p) == [k \in 1..Len(sd_trace[p]) |-> [ev |-> sd_trace[p][k].ev, n |-> sd_trace[p][k].n]]

\* C29: graceful_shutdown runs every registered shutdown handler in
\* registration order before anything is stopped, a handler that raises not
\* preventing the remaining handlers from running; only then it sets
\* running to False, cancels the monitoring task, stops all health checkers,
\* and saves the state as the last step.
C29_ShutdownOrder ==
    \A p \in Callers :
        LET steps == ShutdownSteps(sd_entry[p].handlers, sd_entry[p].checkers)
        IN /\ Len(Done(p)) <= Len(steps)
           /\ Done(p) = SubSeq(steps, 1, Len(Done(p)))
           /\ sd_pc[p] = "done" => Done(p) = steps

\* a shutdown has completed with two handlers, the first of which raised,
\* and one checker
C29_Witness ==
    /\ sd_pc["stop"] = "done"
    /\ Len(sd_trace["stop"]) = 6
    /\ sd_trace["stop"][1] = Event("handler", 1, TRUE)
    /\ sd_trace["stop"][2].ev = "handler"
    /\ sd_trace["stop"][6].ev = "save_state"

\* C30: each registered graceful-shutdown handler runs at most once per
\* start/stop cycle, also when shutdown is requested concurrently, for
\* example a termination signal scheduling graceful_shutdown while a stop()
\* call is still awaiting the handlers.
C30_HandlersOncePerCycle ==
    \A h \in 1..MaxShutdownHandlers : handler_runs[h] <= 1

(***************************************************************************)
(* Claims: removing a project watch                                        *)
(***************************************************************************)
\* C31: after remove_project_watch(p) has returned, no auto screenshot is
\* triggered for p and no pending-change batch of p is processed until p is
\* added again, under every interleaving of the removing caller with the
\* debounce-timer thread; a change event for a project that is not watched
\* leaves the monitor's state unchanged.
C31_NothingAfterRemoval ==
    /\ [](after_removal = {})
    /\ [][(rw_events' # rw_events /\ ~rw_observers) =>
            UNCHANGED <<rw_observers, rw_watch_configs, rw_pending, rw_timers, rw_timer>>]_vars

(***************************************************************************)
(* Claims: the task queue                                                  *)
(***************************************************************************)
\* C32: every accepted submit eventually returns the task's result or
\* raises the task's exception, including for tasks that are submitted or
\* still queued when stop is called: no caller of submit waits forever.
C32_SubmitReturns ==
    \A t \in TQTasks :
        (tq_future[t] = "pending") ~> (tq_future[t] \in {"result", "exception"})

(***************************************************************************)
(* Claims: health checkers of a running manager                            *)
(***************************************************************************)
\* C33: while a ReliabilityManager is running, every registered component
\* has a running health checker, including components registered with
\* register_component after start was called.
C33_RegisteredAreChecked ==
    rm_running => \A c \in Range(health_checkers) : checker_running[c]

(***************************************************************************)
(* Claims: scanning a directory for projects                               *)
(***************************************************************************)
\* p is a path strictly above q
Above(p, q) == Len(p) < Len(q) /\ SubSeq(q, 1, Len(p)) = p

\* C34: scan_directory terminates; it never inspects a directory more than
\* max_depth levels below the base path, never descends into hidden
\* directories or into the subdirectories of a directory already detected
\* as a project, so that no returned project lies inside another returned
\* project.
C34_ScanBounded ==
    /\ [](\A p \in sc_inspected :
            /\ Len(p) <= sc_max_depth
            /\ \A k \in 1..Len(p) : ~startswith_dot(p[k])
            /\ \A i \in 1..Len(sc_projects) : ~Above(sc_projects[i], p))
    /\ [](\A i, j \in 1..Len(sc_projects) :
            i # j => sc_projects[i] # sc_projects[j] /\ ~Above(sc_projects[i], sc_projects[j]))
    /\ (sc_pc = "scanning") ~> (sc_pc = "returned")

\* a scan with max_depth 1 has returned a project one level down, having
\* seen a hidden directory beside it that it did not enter
C34_Witness ==
    /\ sc_pc = "returned"
    /\ sc_max_depth = 1
    /\ sc_projects = << << <<"a">> >> >>
    /\ [path |-> << <<".", "h">> >>, kind |-> "dir"] \in sc_entries
    /\ sc_inspected = {<<>>, << <<"a">> >>}

====
